---- MODULE Spec2Model ----
(***************************************************************************)
(* Model of the option-resolution and argument-construction engine of      *)
(* gitlib (vt.vcs.git.gitlib): the main-option merge, the override chain   *)
(* on git objects, the shared subcommand objects, and the main argument    *)
(* vector formatter.                                                       *)
(***************************************************************************)
EXTENDS Integers, Sequences, FiniteSets, TLC

VARIABLES
    gits,      \* heap of SimpleGitCommand objects, index = object identity
    subcmds,   \* heap of subcommand objects (GitSubcmdCommandImpl)
    calls,     \* ghost: log of the override calls made so far
    runner,    \* the last invocation handed to the command runner
    ret,       \* reference returned by the last override call
    pc,        \* per thread: position in "override then operate"
    tref,      \* per thread: subcommand reference returned by its override call
    town,      \* per thread: ghost, the overrides the thread passed
    targs,     \* per thread: main argument vector its operation handed to the runner
    fn,        \* pure-function harness: which function was applied
    arg1,      \* pure-function harness: first input option set
    arg2,      \* pure-function harness: second input option set
    res        \* pure-function harness: the result

vars == <<gits, subcmds, calls, runner, ret, pc, tref, town, targs, fn, arg1, arg2, res>>

heapVars == <<gits, subcmds, calls, runner, ret>>
threadVars == <<pc, tref, town, targs>>
pureVars == <<fn, arg1, arg2, res>>

----------------------------------------------------------------------------
(* Bounds *)

MaxCalls == 2        \* override calls in one behaviour of Spec
MaxChainCalls == 3   \* override calls in one behaviour of SpecChain
MaxMapLen == 2       \* entries of a -c map given to the formatter

----------------------------------------------------------------------------
(* Python values, tagged by host type *)

None == [t |-> "none"]
UNSET == [t |-> "unset"]
BoolV(b) == [t |-> "bool", b |-> b]
StrV(s) == [t |-> "str", s |-> s]
IntV(n) == [t |-> "int", n |-> n]
PathV(p) == [t |-> "path", p |-> p]
SeqV(q) == [t |-> "seq", q |-> q]
\* a dict keeps insertion order: a sequence of <<key, value>> pairs
MapV(m) == [t |-> "map", m |-> m]

is_unset(v) == v = UNSET

not_none_not_unset(v) == v # None /\ v # UNSET

\* str(Path(p)): pathlib drops trailing slashes and renders the empty path as "."
PathStr(p) ==
    CASE p = "" -> "."
      [] p = "tmp/" -> "tmp"
      [] OTHER -> p

\* str(v) as used by str(...) and by f-strings
PyStr(v) ==
    CASE v.t = "none" -> "None"
      [] v.t = "unset" -> "UNSET"
      [] v.t = "bool" -> (IF v.b THEN "True" ELSE "False")
      [] v.t = "str" -> v.s
      [] v.t = "int" -> ToString(v.n)
      [] v.t = "path" -> PathStr(v.p)
      [] OTHER -> "?"

----------------------------------------------------------------------------
(* GitOpts: the declared main-option universe, in declaration order *)

GitOptsKeys ==
    << "C", "c", "config_env", "exec_path", "paginate", "no_pager", "git_dir",
       "work_tree", "namespace", "bare", "no_replace_objects", "no_lazy_fetch",
       "no_optional_locks", "no_advice", "literal_pathspecs", "glob_pathspecs",
       "noglob_pathspecs", "icase_pathspecs", "list_cmds", "attr_source" >>

KeySet == {GitOptsKeys[i] : i \in DOMAIN GitOptsKeys}

\* a dict with no entries
EmptyOpts == [k \in {} |-> None]

\* dict.get(k): None when the key is not in the dict
Get(d, k) == IF k \in DOMAIN d THEN d[k] ELSE None

merge_git_opts_fallback_on_unset(primary, fallback) ==
    [k \in KeySet |->
        IF Get(primary, k) = None \/ Get(primary, k) = UNSET
        THEN Get(fallback, k) ELSE Get(primary, k)]

merge_git_opts_fallback_first(primary, fallback) ==
    [k \in KeySet |->
        IF Get(fallback, k) = None THEN Get(primary, k) ELSE Get(fallback, k)]

merge_git_opts_union_maps(primary, fallback) ==
    [k \in KeySet |->
        IF Get(primary, k) = None THEN Get(fallback, k)
        ELSE IF Get(primary, k).t = "map" /\ Get(fallback, k).t = "map"
        THEN MapV(SelectSeq(Get(fallback, k).m,
                            LAMBDA e : \A i \in DOMAIN Get(primary, k).m :
                                          Get(primary, k).m[i][1] # e[1])
                  \o Get(primary, k).m)
        ELSE Get(primary, k)]

merge_git_opts(primary, fallback) ==
    [k \in KeySet |->
        IF Get(primary, k) = None THEN Get(fallback, k) ELSE Get(primary, k)]

----------------------------------------------------------------------------
(* Argument formatter: one function per main option (GitCommand) *)

\* [item for x in q for item in [flag, PyStr(x)]]
RECURSIVE FlagPerItem(_, _)
FlagPerItem(flag, q) ==
    IF q = <<>> THEN <<>>
    ELSE <<flag, PyStr(Head(q))>> \o FlagPerItem(flag, Tail(q))

main_cmd_cap_c_args(opts) ==
    LET val == Get(opts, "C") IN
    IF not_none_not_unset(val) THEN FlagPerItem("-C", val.q) ELSE <<>>

small_c_entry_none_as_unset(k, v) ==
    IF is_unset(v) \/ v = None THEN <<>>
    ELSE IF v = BoolV(TRUE) THEN <<"-c", k>>
    ELSE IF v = BoolV(FALSE) THEN <<"-c", k \o "=">>
    ELSE <<"-c", k \o "=" \o PyStr(v)>>

\* one dict entry of -c
small_c_entry(k, v) ==
    IF is_unset(v) THEN <<>>
    ELSE IF v = BoolV(TRUE) \/ v = None THEN <<"-c", k>>
    ELSE IF v = BoolV(FALSE) THEN <<"-c", k \o "=">>
    ELSE <<"-c", k \o "=" \o PyStr(v)>>

RECURSIVE small_c_items(_)
small_c_items(m) ==
    IF m = <<>> THEN <<>>
    ELSE small_c_entry(Head(m)[1], Head(m)[2]) \o small_c_items(Tail(m))

main_cmd_small_c_args(opts) ==
    LET val == Get(opts, "c") IN
    IF not_none_not_unset(val) THEN small_c_items(val.m) ELSE <<>>

RECURSIVE config_env_items(_)
config_env_items(m) ==
    IF m = <<>> THEN <<>>
    ELSE <<"--config-env", Head(m)[1] \o "=" \o PyStr(Head(m)[2])>>
         \o config_env_items(Tail(m))

main_cmd_config_env_args(opts) ==
    LET val == Get(opts, "config_env") IN
    IF not_none_not_unset(val) THEN config_env_items(val.m) ELSE <<>>

flag_and_str_joined(opts, key, flag) ==
    LET val == Get(opts, key) IN
    IF not_none_not_unset(val) THEN <<flag \o "=" \o PyStr(val)>> ELSE <<>>

\* the shape shared by the path-valued options: [flag, str(val)]
flag_and_str(opts, key, flag) ==
    LET val == Get(opts, key) IN
    IF not_none_not_unset(val) THEN <<flag, PyStr(val)>> ELSE <<>>

\* the shape shared by the string-valued options: [flag, val]
flag_and_val(opts, key, flag) ==
    LET val == Get(opts, key) IN
    IF not_none_not_unset(val) THEN <<flag, val.s>> ELSE <<>>

\* the shape shared by the flag-only options: the flag whenever the value is
\* neither None nor UNSET
flag_only(opts, key, flag) ==
    LET val == Get(opts, key) IN
    IF not_none_not_unset(val) THEN <<flag>> ELSE <<>>

main_cmd_exec_path_args(opts) == flag_and_str(opts, "exec_path", "--exec-path")
main_cmd_paginate_args(opts) == flag_only(opts, "paginate", "--paginate")
main_cmd_no_pager_args(opts) == flag_only(opts, "no_pager", "--no-pager")
main_cmd_git_dir_args(opts) == flag_and_str(opts, "git_dir", "--git-dir")
main_cmd_work_tree_args(opts) == flag_and_str(opts, "work_tree", "--work-tree")
main_cmd_namespace_args(opts) == flag_and_val(opts, "namespace", "--namespace")
main_cmd_bare_args(opts) == flag_only(opts, "bare", "--bare")
main_cmd_no_replace_objects_args(opts) ==
    flag_only(opts, "no_replace_objects", "--no-replace-objects")
main_cmd_no_lazy_fetch_args(opts) ==
    flag_only(opts, "no_lazy_fetch", "--no-lazy-fetch")
main_cmd_no_optional_locks_args(opts) ==
    flag_only(opts, "no_optional_locks", "--no-optional-locks")
main_cmd_no_advice_args(opts) == flag_only(opts, "no_advice", "--no-advice")
main_cmd_literal_pathspecs_args(opts) ==
    flag_only(opts, "literal_pathspecs", "--literal-pathspecs")
main_cmd_glob_pathspecs_args(opts) ==
    flag_only(opts, "glob_pathspecs", "--glob-pathspecs")
main_cmd_noglob_pathspecs_args(opts) ==
    flag_only(opts, "noglob_pathspecs", "--noglob-pathspecs")
main_cmd_icase_pathspecs_args(opts) ==
    flag_only(opts, "icase_pathspecs", "--icase-pathspecs")

\* [item for cmd in q for item in ["--list-cmds", cmd]]
RECURSIVE list_cmds_items(_)
list_cmds_items(q) ==
    IF q = <<>> THEN <<>>
    ELSE <<"--list-cmds", Head(q).s>> \o list_cmds_items(Tail(q))

main_cmd_list_cmds_args(opts) ==
    LET val == Get(opts, "list_cmds") IN
    IF not_none_not_unset(val) THEN list_cmds_items(val.q) ELSE <<>>

main_cmd_attr_source_args(opts) == flag_and_val(opts, "attr_source", "--attr-source")

\* the token group of one option, by key
key_args(opts, k) ==
    CASE k = "C" -> main_cmd_cap_c_args(opts)
      [] k = "c" -> main_cmd_small_c_args(opts)
      [] k = "config_env" -> main_cmd_config_env_args(opts)
      [] k = "exec_path" -> main_cmd_exec_path_args(opts)
      [] k = "paginate" -> main_cmd_paginate_args(opts)
      [] k = "no_pager" -> main_cmd_no_pager_args(opts)
      [] k = "git_dir" -> main_cmd_git_dir_args(opts)
      [] k = "work_tree" -> main_cmd_work_tree_args(opts)
      [] k = "namespace" -> main_cmd_namespace_args(opts)
      [] k = "bare" -> main_cmd_bare_args(opts)
      [] k = "no_replace_objects" -> main_cmd_no_replace_objects_args(opts)
      [] k = "no_lazy_fetch" -> main_cmd_no_lazy_fetch_args(opts)
      [] k = "no_optional_locks" -> main_cmd_no_optional_locks_args(opts)
      [] k = "no_advice" -> main_cmd_no_advice_args(opts)
      [] k = "literal_pathspecs" -> main_cmd_literal_pathspecs_args(opts)
      [] k = "glob_pathspecs" -> main_cmd_glob_pathspecs_args(opts)
      [] k = "noglob_pathspecs" -> main_cmd_noglob_pathspecs_args(opts)
      [] k = "icase_pathspecs" -> main_cmd_icase_pathspecs_args(opts)
      [] k = "list_cmds" -> main_cmd_list_cmds_args(opts)
      [] k = "attr_source" -> main_cmd_attr_source_args(opts)

build_main_cmd_args_paginate_first(opts) ==
    main_cmd_paginate_args(opts) \o
    main_cmd_cap_c_args(opts) \o
    main_cmd_small_c_args(opts) \o
    main_cmd_config_env_args(opts) \o
    main_cmd_exec_path_args(opts) \o
    main_cmd_no_pager_args(opts) \o
    main_cmd_git_dir_args(opts) \o
    main_cmd_work_tree_args(opts) \o
    main_cmd_namespace_args(opts) \o
    main_cmd_bare_args(opts) \o
    main_cmd_no_replace_objects_args(opts) \o
    main_cmd_no_lazy_fetch_args(opts) \o
    main_cmd_no_optional_locks_args(opts) \o
    main_cmd_no_advice_args(opts) \o
    main_cmd_literal_pathspecs_args(opts) \o
    main_cmd_glob_pathspecs_args(opts) \o
    main_cmd_noglob_pathspecs_args(opts) \o
    main_cmd_icase_pathspecs_args(opts) \o
    main_cmd_list_cmds_args(opts) \o
    main_cmd_attr_source_args(opts)

build_main_cmd_args(opts) ==
    main_cmd_cap_c_args(opts) \o
    main_cmd_small_c_args(opts) \o
    main_cmd_config_env_args(opts) \o
    main_cmd_exec_path_args(opts) \o
    main_cmd_paginate_args(opts) \o
    main_cmd_no_pager_args(opts) \o
    main_cmd_git_dir_args(opts) \o
    main_cmd_work_tree_args(opts) \o
    main_cmd_namespace_args(opts) \o
    main_cmd_bare_args(opts) \o
    main_cmd_no_replace_objects_args(opts) \o
    main_cmd_no_lazy_fetch_args(opts) \o
    main_cmd_no_optional_locks_args(opts) \o
    main_cmd_no_advice_args(opts) \o
    main_cmd_literal_pathspecs_args(opts) \o
    main_cmd_glob_pathspecs_args(opts) \o
    main_cmd_noglob_pathspecs_args(opts) \o
    main_cmd_icase_pathspecs_args(opts) \o
    main_cmd_list_cmds_args(opts) \o
    main_cmd_attr_source_args(opts)

----------------------------------------------------------------------------
(* Objects *)

\* SimpleGitCommand.__init__ on a fresh heap: the git object creates its three
\* subcommand objects, each holding a reference back to it
NewGit ==
    [opts |-> EmptyOpts, version_subcmd |-> 1, ls_tree_subcmd |-> 2, add_subcmd |-> 3]

NewSubcmds ==
    << [kind |-> "version", underlying_git |-> 1],
       [kind |-> "ls_tree", underlying_git |-> 1],
       [kind |-> "add", underlying_git |-> 1] >>

NoRef == [kind |-> "none", id |-> 0]
NoCall == [via |-> 0, main_cmd_args |-> <<>>]

\* SimpleGitCommand.clone: a new git object constructed with the receiver's
\* subcommand objects; its own options start empty
clone(g) == [gits[g] EXCEPT !.opts = EmptyOpts]

git_opts_override_in_place(g, overrides) ==
    /\ gits' = [gits EXCEPT ![g].opts = merge_git_opts(overrides, gits[g].opts)]
    /\ ret' = [kind |-> "git", id |-> g]

\* GitCommand.git_opts_override: clone, merge, store in the clone, return it
git_opts_override(g, overrides) ==
    /\ gits' = Append(gits,
                 [clone(g) EXCEPT !.opts = merge_git_opts(overrides, gits[g].opts)])
    /\ ret' = [kind |-> "git", id |-> Len(gits) + 1]

\* GitSubcmdCommand.git_opts_override: override the underlying git, store the
\* result in the receiver, return the receiver
subcmd_git_opts_override(s, overrides) ==
    LET u == subcmds[s].underlying_git IN
    /\ gits' = Append(gits,
                 [clone(u) EXCEPT !.opts = merge_git_opts(overrides, gits[u].opts)])
    /\ subcmds' = [subcmds EXCEPT ![s].underlying_git = Len(gits) + 1]
    /\ ret' = [kind |-> "subcmd", id |-> s]

\* the main argument vector a subcommand operation (version, ls_tree, add)
\* computes from its underlying git
subcmd_main_cmd_args(s) == build_main_cmd_args(gits[subcmds[s].underlying_git].opts)

----------------------------------------------------------------------------
(* Inputs *)

Flags ==
    { "paginate", "no_pager", "bare", "no_replace_objects", "no_lazy_fetch",
      "no_optional_locks", "no_advice", "literal_pathspecs", "glob_pathspecs",
      "noglob_pathspecs", "icase_pathspecs" }

One(k, v) == [j \in {k} |-> v]

\* the option sets used on the object heap
SmallInputs ==
    { EmptyOpts,
      One("no_advice", BoolV(TRUE)),
      One("namespace", StrV("suhas")),
      One("exec_path", PathV("tmp")),
      One("exec_path", UNSET) }

----------------------------------------------------------------------------
(* Spec: one caller working on the object heap *)

Init ==
    /\ gits = <<NewGit>>
    /\ subcmds = NewSubcmds
    /\ calls = <<>>
    /\ runner = NoCall
    /\ ret = NoRef
    /\ pc = [t \in {1, 2} |-> "start"]
    /\ tref = [t \in {1, 2} |-> 0]
    /\ town = [t \in {1, 2} |-> EmptyOpts]
    /\ targs = [t \in {1, 2} |-> <<>>]
    /\ fn = "none"
    /\ arg1 = EmptyOpts
    /\ arg2 = EmptyOpts
    /\ res = None

\* g.git_opts_override(**overrides)
GitOverride ==
    \E g \in DOMAIN gits, ov \in SmallInputs :
        /\ Len(calls) < MaxCalls
        /\ git_opts_override(g, ov)
        /\ calls' = Append(calls, [via |-> "git", base |-> g, overrides |-> ov,
                                   result |-> ret'.id])
        /\ UNCHANGED <<subcmds, runner>>
        /\ UNCHANGED threadVars
        /\ UNCHANGED pureVars

\* s.git_opts_override(**overrides) on a subcommand object
SubcmdOverride ==
    \E s \in DOMAIN subcmds, ov \in SmallInputs :
        /\ Len(calls) < MaxCalls
        /\ subcmd_git_opts_override(s, ov)
        /\ calls' = Append(calls, [via |-> "subcmd", base |-> subcmds[s].underlying_git,
                                   overrides |-> ov, result |-> Len(gits) + 1])
        /\ UNCHANGED runner
        /\ UNCHANGED threadVars
        /\ UNCHANGED pureVars

\* a subcommand operation reaching the runner
SubcmdRun ==
    \E s \in DOMAIN subcmds :
        /\ runner' = [via |-> s, main_cmd_args |-> subcmd_main_cmd_args(s)]
        /\ UNCHANGED <<gits, subcmds, calls, ret>>
        /\ UNCHANGED threadVars
        /\ UNCHANGED pureVars

Next == GitOverride \/ SubcmdOverride \/ SubcmdRun

Spec == Init /\ [][Next]_vars

----------------------------------------------------------------------------
(* SpecChain: chains of git_opts_override calls, each on the newest object *)

\* every option set to a value
AllSet ==
    [k \in KeySet |->
        CASE k = "C" -> SeqV(<<PathV("")>>)
          [] k = "c" -> MapV(<< <<"foo.bar", BoolV(TRUE)>> >>)
          [] k = "config_env" -> MapV(<< <<"auth", StrV("suhas")>> >>)
          [] k \in {"exec_path", "git_dir", "work_tree"} -> PathV("tmp")
          [] k \in {"namespace", "attr_source"} -> StrV("suhas")
          [] k = "list_cmds" -> SeqV(<<StrV("main")>>)
          [] OTHER -> BoolV(TRUE)]

\* the keys a chain call may supply alone, one of each kind of option
ChainKeys == {"C", "c", "exec_path", "paginate", "namespace"}

ChainInputs ==
    {EmptyOpts, AllSet}
    \cup {One(k, AllSet[k]) : k \in ChainKeys}
    \cup {One(k, UNSET) : k \in ChainKeys}
    \cup {One(k, None) : k \in ChainKeys}
    \cup { [k \in {"exec_path", "C"} |->
              IF k = "C" THEN SeqV(<<PathV("")>>) ELSE PathV("tmp/")],
           [k \in {"no_replace_objects", "git_dir", "paginate"} |->
              IF k = "git_dir" THEN PathV("") ELSE BoolV(TRUE)],
           [k \in {"paginate", "namespace"} |->
              IF k = "paginate" THEN UNSET ELSE StrV("ns2")] }

ChainOverride ==
    \E ov \in ChainInputs :
        /\ Len(calls) < MaxChainCalls
        /\ git_opts_override(Len(gits), ov)
        /\ calls' = Append(calls, [via |-> "git", base |-> Len(gits), overrides |-> ov,
                                   result |-> ret'.id])
        /\ UNCHANGED <<subcmds, runner>>
        /\ UNCHANGED threadVars
        /\ UNCHANGED pureVars

NextChain == ChainOverride

SpecChain == Init /\ [][NextChain]_vars

----------------------------------------------------------------------------
(* SpecThreads: two threads share the root git object and its subcommands *)

Threads == {1, 2}

\* thread t calls s.git_opts_override(**ov) on a subcommand of the shared git
ThreadOverride ==
    \E t \in Threads, s \in DOMAIN subcmds, ov \in SmallInputs :
        /\ pc[t] = "start"
        /\ s \in {gits[1].version_subcmd, gits[1].ls_tree_subcmd, gits[1].add_subcmd}
        /\ subcmd_git_opts_override(s, ov)
        /\ calls' = Append(calls, [via |-> "subcmd", base |-> subcmds[s].underlying_git,
                                   overrides |-> ov, result |-> Len(gits) + 1])
        /\ tref' = [tref EXCEPT ![t] = ret'.id]
        /\ town' = [town EXCEPT ![t] = ov]
        /\ pc' = [pc EXCEPT ![t] = "overridden"]
        /\ UNCHANGED <<runner, targs>>
        /\ UNCHANGED pureVars

\* thread t runs the subcommand operation on the reference its override returned
ThreadRun ==
    \E t \in Threads :
        /\ pc[t] = "overridden"
        /\ targs' = [targs EXCEPT ![t] = subcmd_main_cmd_args(tref[t])]
        /\ runner' = [via |-> tref[t], main_cmd_args |-> subcmd_main_cmd_args(tref[t])]
        /\ pc' = [pc EXCEPT ![t] = "done"]
        /\ UNCHANGED <<gits, subcmds, calls, ret, tref, town>>
        /\ UNCHANGED pureVars

NextThreads == ThreadOverride \/ ThreadRun

SpecThreads == Init /\ [][NextThreads]_vars

----------------------------------------------------------------------------
(* SpecPure: the pure functions applied to inputs drawn at the start *)

\* the -c values a map entry may hold
CEntryVals == {BoolV(TRUE), BoolV(FALSE), None, UNSET, StrV(""), StrV("x"), IntV(10)}

CKeys == <<"foo.bar", "baz", "a.b">>

\* the dicts of n entries whose keys are the first n of a permutation of CKeys
RECURSIVE CMaps(_)
CMaps(n) ==
    IF n = 0 THEN {<<>>}
    ELSE CMaps(n - 1) \cup
         { Append(m, <<k, v>>) :
             m \in {mm \in CMaps(n - 1) : Len(mm) = n - 1},
             k \in {CKeys[i] : i \in DOMAIN CKeys},
             v \in CEntryVals }

DistinctKeys(m) == \A i, j \in DOMAIN m : i # j => m[i][1] # m[j][1]

CValues == {MapV(m) : m \in {mm \in CMaps(MaxMapLen) : DistinctKeys(mm)}}

\* the values of each option the formatter is tried on
KeyVals(k) ==
    {None, UNSET} \cup
    CASE k = "C" -> {SeqV(<<>>), SeqV(<<PathV("")>>), SeqV(<<PathV("repo"), PathV("tmp/")>>)}
      [] k = "c" -> CValues
      [] k = "config_env" ->
            {MapV(<<>>), MapV(<< <<"auth", StrV("suhas")>>, <<"comm", StrV("suyog")>> >>)}
      [] k \in {"exec_path", "git_dir", "work_tree"} -> {PathV("tmp"), PathV("")}
      [] k \in {"namespace", "attr_source"} -> {StrV("suhas"), StrV("")}
      [] k = "list_cmds" -> {SeqV(<<>>), SeqV(<<StrV("main"), StrV("others")>>)}
      [] OTHER -> {BoolV(TRUE), BoolV(FALSE)}

FormatInputs ==
    {EmptyOpts, AllSet} \cup UNION {{One(k, v) : v \in KeyVals(k)} : k \in KeySet}

\* for the merge: one key per side, every state of it, and sets of several keys
MergeVals(k) ==
    {None, UNSET, AllSet[k]} \cup (IF k \in Flags THEN {BoolV(FALSE)} ELSE {})
    \cup (IF k = "c"
          THEN {MapV(<<>>), MapV(<< <<"foo.bar", UNSET>> >>), MapV(<< <<"baz", StrV("x")>> >>),
                MapV(<< <<"foo.bar", StrV("x")>>, <<"a.b", IntV(10)>> >>)}
          ELSE {})

MergeInputs ==
    {EmptyOpts, AllSet} \cup UNION {{One(k, v) : v \in MergeVals(k)} : k \in KeySet}

InitPure ==
    /\ gits = <<NewGit>>
    /\ subcmds = NewSubcmds
    /\ calls = <<>>
    /\ runner = NoCall
    /\ ret = NoRef
    /\ pc = [t \in {1, 2} |-> "start"]
    /\ tref = [t \in {1, 2} |-> 0]
    /\ town = [t \in {1, 2} |-> EmptyOpts]
    /\ targs = [t \in {1, 2} |-> <<>>]
    /\ fn = "none"
    /\ \/ arg1 \in MergeInputs /\ arg2 \in MergeInputs
       \/ arg1 \in FormatInputs /\ arg2 = EmptyOpts
    /\ res = None

\* merge_git_opts(arg1, arg2)
PureMerge ==
    /\ fn = "none"
    /\ fn' = "merge"
    /\ res' = merge_git_opts(arg1, arg2)
    /\ UNCHANGED <<arg1, arg2>>
    /\ UNCHANGED heapVars
    /\ UNCHANGED threadVars

\* build_main_cmd_args() of a git object whose stored options are arg1
PureBuild ==
    /\ fn = "none"
    /\ fn' = "build"
    /\ res' = build_main_cmd_args(arg1)
    /\ UNCHANGED <<arg1, arg2>>
    /\ UNCHANGED heapVars
    /\ UNCHANGED threadVars

NextPure == PureMerge \/ PureBuild

SpecPure == InitPure /\ [][NextPure]_vars

----------------------------------------------------------------------------
(* Claims about the pure functions, checked under SpecPure *)

\* the three states of an option in an option set
Absent(d, k) == Get(d, k) = None
Cleared(d, k) == Get(d, k) = UNSET
Explicit(d, k) == ~Absent(d, k) /\ ~Cleared(d, k)

\* C1: for every declared key k, merge_git_opts(primary, fallback)[k] is
\* primary[k] when primary[k] is an explicit value or UNSET, and fallback[k]
\* (absent/None, a value or UNSET) when primary[k] is absent or None.
C1_MergePerKey ==
    fn = "merge" =>
        /\ DOMAIN res = KeySet
        /\ \A k \in KeySet :
            /\ (Explicit(arg1, k) \/ Cleared(arg1, k)) => res[k] = arg1[k]
            /\ Absent(arg1, k) =>
                  res[k] = (IF k \in DOMAIN arg2 THEN arg2[k] ELSE None)

\* a merge where the primary clears a key the fallback sets and leaves the
\* other keys to the fallback
C1_Witness ==
    /\ fn = "merge"
    /\ arg1 = One("paginate", UNSET)
    /\ arg2 = AllSet
    /\ res["paginate"] = UNSET
    /\ res["bare"] = BoolV(TRUE)

\* the flag token of each flag-only option
FlagToken(k) ==
    CASE k = "paginate" -> "--paginate"
      [] k = "no_pager" -> "--no-pager"
      [] k = "bare" -> "--bare"
      [] k = "no_replace_objects" -> "--no-replace-objects"
      [] k = "no_lazy_fetch" -> "--no-lazy-fetch"
      [] k = "no_optional_locks" -> "--no-optional-locks"
      [] k = "no_advice" -> "--no-advice"
      [] k = "literal_pathspecs" -> "--literal-pathspecs"
      [] k = "glob_pathspecs" -> "--glob-pathspecs"
      [] k = "noglob_pathspecs" -> "--noglob-pathspecs"
      [] k = "icase_pathspecs" -> "--icase-pathspecs"

\* C6: for every flag-only boolean main option, True yields exactly the flag
\* token, False yields no token, and None and UNSET yield no token.
C6_FlagOnly ==
    \A k \in Flags :
        (fn = "build" /\ DOMAIN arg1 = {k}) =>
            /\ arg1[k] = BoolV(TRUE) => res = <<FlagToken(k)>>
            /\ arg1[k] = BoolV(FALSE) => res = <<>>
            /\ arg1[k] \in {None, UNSET} => res = <<>>

\* the entries of a -c map that are not UNSET, in the map's order
NonUnset(m) == SelectSeq(m, LAMBDA e : e[2] # UNSET)

\* the second token of one rendered -c entry, as the claim gives it
CToken(e) ==
    CASE e[2] = BoolV(TRUE) -> e[1]
      [] e[2] = None -> e[1]
      [] e[2] = BoolV(FALSE) -> e[1] \o "="
      [] e[2] = StrV("") -> e[1] \o "="
      [] e[2] = StrV("x") -> e[1] \o "=x"
      [] e[2] = IntV(10) -> e[1] \o "=10"

\* C10: the -c map is rendered entry by entry in iteration order: True or None
\* gives ['-c', key], False gives ['-c', 'key='], another value v gives
\* ['-c', 'key=v'], an UNSET entry gives nothing; a map that is None, UNSET,
\* empty or all-UNSET gives no tokens.
C10_SmallC ==
    (fn = "build" /\ DOMAIN arg1 = {"c"}) =>
        IF arg1["c"] \in {None, UNSET} THEN res = <<>>
        ELSE LET es == NonUnset(arg1["c"].m) IN
             /\ Len(res) = 2 * Len(es)
             /\ \A i \in DOMAIN es :
                  /\ res[2 * i - 1] = "-c"
                  /\ res[2 * i] = CToken(es[i])

\* a map with an UNSET entry between a False and a valued entry
C10_Witness ==
    /\ fn = "build"
    /\ arg1 = One("c", MapV(<< <<"baz", BoolV(FALSE)>>, <<"foo.bar", UNSET>> >>))
    /\ res = <<"-c", "baz=">>

----------------------------------------------------------------------------
(* Claims about override chains, checked under SpecChain *)

\* the overrides of the calls that led from the root object to g, oldest first
RECURSIVE Chain(_)
Chain(g) ==
    IF g = 1 THEN <<>>
    ELSE Append(Chain(calls[g - 1].base), calls[g - 1].overrides)

\* the override set ov without key k
Without(ov, k) == [j \in DOMAIN ov \ {k} |-> ov[j]]

\* one merge call per element of ch, oldest first, starting from acc
RECURSIVE Fold(_, _)
Fold(ch, acc) ==
    IF ch = <<>> THEN acc ELSE Fold(Tail(ch), merge_git_opts(Head(ch), acc))

\* the value given for k by the most recent call of ch that gave a non-None
\* value for it; None when no call did
RECURSIVE LastSupplied(_, _)
LastSupplied(ch, k) ==
    IF ch = <<>> THEN None
    ELSE IF Get(ch[Len(ch)], k) # None THEN ch[Len(ch)][k]
    ELSE LastSupplied(SubSeq(ch, 1, Len(ch) - 1), k)

\* C2: after any chain of git_opts_override calls, if the most recent call
\* that supplied a non-None value for key k supplied UNSET, no token is
\* emitted for k (also when later calls do not mention k or pass None for
\* it), and the tokens of every other key are as if k had never been set.
C2_ClearDominance ==
    \A g \in DOMAIN gits : \A k \in KeySet :
        LastSupplied(Chain(g), k) = UNSET =>
            LET never == Fold([i \in DOMAIN Chain(g) |-> Without(Chain(g)[i], k)],
                              EmptyOpts)
            IN /\ key_args(gits[g].opts, k) = <<>>
               /\ \A j \in KeySet \ {k} :
                     key_args(gits[g].opts, j) = key_args(never, j)
               /\ build_main_cmd_args(gits[g].opts) = build_main_cmd_args(never)

\* exec_path and C set, then exec_path UNSET, then a call passing None for it
C2_Witness ==
    /\ Len(calls) = 3
    /\ Get(calls[1].overrides, "exec_path") = PathV("tmp/")
    /\ "C" \in DOMAIN calls[1].overrides
    /\ calls[2].overrides = One("exec_path", UNSET)
    /\ calls[3].overrides = One("exec_path", None)
    /\ build_main_cmd_args(gits[4].opts) = <<"-C", ".">>

\* C3: base.git_opts_override(A).git_opts_override(B) has the effective
\* option set merge(B, merge(A, base)) = merge(merge(B, A), base), and per key
\* the most recent call that supplied the key wins (a value set again after
\* an UNSET is rendered again).
C3_ChainAssociative ==
    \A g \in DOMAIN gits :
        /\ g >= 3 =>
              LET B == calls[g - 1].overrides
                  A == calls[g - 2].overrides
                  base == gits[calls[g - 2].base].opts
              IN /\ calls[g - 1].base = g - 1
                 /\ gits[g].opts = merge_git_opts(B, merge_git_opts(A, base))
                 /\ gits[g].opts = merge_git_opts(merge_git_opts(B, A), base)
        /\ \A k \in KeySet : Get(gits[g].opts, k) = LastSupplied(Chain(g), k)

\* exec_path set, cleared, and set again
C3_Witness ==
    /\ Len(calls) = 3
    /\ calls[1].overrides = One("exec_path", PathV("tmp"))
    /\ calls[2].overrides = One("exec_path", UNSET)
    /\ calls[3].overrides = One("exec_path", PathV("tmp"))
    /\ build_main_cmd_args(gits[4].opts) = <<"--exec-path", "tmp">>

\* the order of the per-option token groups, as claimed
ClaimedOrder ==
    << "C", "c", "config_env", "exec_path", "paginate", "no_pager", "git_dir",
       "work_tree", "namespace", "bare", "no_replace_objects", "no_lazy_fetch",
       "no_optional_locks", "no_advice", "literal_pathspecs", "glob_pathspecs",
       "noglob_pathspecs", "icase_pathspecs", "list_cmds", "attr_source" >>

RECURSIVE GroupsInOrder(_, _)
GroupsInOrder(order, opts) ==
    IF order = <<>> THEN <<>>
    ELSE key_args(opts, Head(order)) \o GroupsInOrder(Tail(order), opts)

\* the keys given a non-None value by override set ov
Supplied(ov) == {k \in DOMAIN ov : ov[k] # None}

\* one override set holding what the calls of ch supply, for calls that supply
\* disjoint keys
Grouped(ch) ==
    [k \in UNION {Supplied(ch[i]) : i \in DOMAIN ch} |->
        ch[CHOOSE i \in DOMAIN ch : k \in Supplied(ch[i])][k]]

Reversed(ch) == [i \in DOMAIN ch |-> ch[Len(ch) + 1 - i]]

\* C5: build_main_cmd_args is order-stable: the token list is the
\* concatenation of the per-option groups in the order C, c, config_env,
\* exec_path, ..., list_cmds, attr_source, and it is the same whatever the
\* order or grouping of the override calls that supplied the options.
C5_OrderStable ==
    \A g \in DOMAIN gits :
        LET ch == Chain(g) IN
        /\ build_main_cmd_args(gits[g].opts) = GroupsInOrder(ClaimedOrder, gits[g].opts)
        /\ (\A i, j \in DOMAIN ch : i # j => Supplied(ch[i]) \cap Supplied(ch[j]) = {}) =>
              /\ build_main_cmd_args(gits[g].opts)
                    = build_main_cmd_args(Fold(Reversed(ch), EmptyOpts))
              /\ build_main_cmd_args(gits[g].opts)
                    = build_main_cmd_args(Fold(<<Grouped(ch)>>, EmptyOpts))

\* namespace, then exec_path and C, then paginate: rendered C, exec_path,
\* paginate, namespace
C5_Witness ==
    /\ Len(calls) = 3
    /\ calls[1].overrides = One("namespace", StrV("suhas"))
    /\ DOMAIN calls[2].overrides = {"exec_path", "C"}
    /\ calls[3].overrides = One("paginate", BoolV(TRUE))
    /\ build_main_cmd_args(gits[4].opts)
          = <<"-C", ".", "--exec-path", "tmp", "--paginate", "--namespace", "suhas">>

----------------------------------------------------------------------------
(* Claims about the objects, checked under Spec and SpecThreads *)

\* C4: git_opts_override never mutates its receiver: in every step the stored
\* main options of every existing git object (the receiver and its ancestors
\* included) stay as they were, and the object an override call on a git
\* object returns is a distinct, new object.
C4_ReceiverUnchanged ==
    [][ /\ \A g \in DOMAIN gits :
              g \in DOMAIN gits' /\ gits'[g].opts = gits[g].opts
        /\ (Len(calls') > Len(calls) /\ calls'[Len(calls')].via = "git") =>
              /\ ret'.kind = "git"
              /\ ret'.id \notin DOMAIN gits
              /\ ret'.id \in DOMAIN gits' ]_vars

\* g2 = root.git_opts_override(...), then g3 = g2.git_opts_override(...): the
\* root still stores the empty set and g2 what its own call gave it
C4_Witness ==
    /\ Len(calls) = 2
    /\ calls[1] = [via |-> "git", base |-> 1, overrides |-> One("namespace", StrV("suhas")),
                   result |-> 2]
    /\ calls[2] = [via |-> "git", base |-> 2, overrides |-> One("no_advice", BoolV(TRUE)),
                   result |-> 3]
    /\ gits[1].opts = EmptyOpts
    /\ gits[2].opts["no_advice"] = None
    /\ gits[3].opts["no_advice"] = BoolV(TRUE)

\* the subcommand objects reached through git object g
SubcmdsOf(g) == {gits[g].version_subcmd, gits[g].ls_tree_subcmd, gits[g].add_subcmd}

\* C7: for a subcommand obtained from a git object g that results from any
\* chain of git_opts_override calls, subcmd.underlying_git carries g's
\* effective main options, so that a subcommand invocation made through g
\* hands the runner the tokens of g's options.
C7_SubcmdCarriesOpts ==
    (\A i \in DOMAIN calls : calls[i].via = "git") =>
        \A g \in DOMAIN gits : \A s \in SubcmdsOf(g) :
            /\ build_main_cmd_args(gits[subcmds[s].underlying_git].opts)
                  = build_main_cmd_args(gits[g].opts)
            /\ subcmd_main_cmd_args(s) = build_main_cmd_args(gits[g].opts)

\* C8: git_opts_override called on a subcommand returns a new instance and
\* leaves the receiver subcommand and its underlying git reference unchanged,
\* so a later, separate call through git.X_subcmd does not see the options.
C8_SubcmdOverrideTemporary ==
    /\ \A s \in SubcmdsOf(1) : subcmds[s].underlying_git = 1
    /\ ret.kind = "subcmd" => ret.id \notin SubcmdsOf(1)
    /\ runner # NoCall /\ runner.via \in SubcmdsOf(1) =>
          runner.main_cmd_args = build_main_cmd_args(gits[1].opts)

\* C9: when two threads each call subcommand.git_opts_override(own options)
\* on the same git object and then a subcommand operation, the main argument
\* vector of each operation holds the tokens of that thread's own overrides
\* and of the git object only.
C9_ThreadsIsolated ==
    \A t \in Threads :
        pc[t] = "done" =>
            targs[t] = build_main_cmd_args(merge_git_opts(town[t], gits[1].opts))

----------------------------------------------------------------------------
(* Further claims about the main argument formatter, checked under SpecPure *)

\* the flag of each path- or string-valued main option
ValueFlag(k) ==
    CASE k = "exec_path" -> "--exec-path"
      [] k = "git_dir" -> "--git-dir"
      [] k = "work_tree" -> "--work-tree"
      [] k = "namespace" -> "--namespace"
      [] k = "attr_source" -> "--attr-source"

\* C11: sequence-valued main options are rendered as one [flag, value] pair
\* per element in input order (C: '-C', str(path); list_cmds: '--list-cmds',
\* cmd), and path- or string-valued main options (exec_path, git_dir,
\* work_tree, namespace, attr_source) as two separate tokens [flag, value].
C11_PairsPerElement ==
    \A k \in {"C", "list_cmds", "exec_path", "git_dir", "work_tree", "namespace",
              "attr_source"} :
        (fn = "build" /\ DOMAIN arg1 = {k} /\ not_none_not_unset(arg1[k])) =>
            CASE k = "C" ->
                    /\ Len(res) = 2 * Len(arg1[k].q)
                    /\ \A i \in DOMAIN arg1[k].q :
                          /\ res[2 * i - 1] = "-C"
                          /\ res[2 * i] = PathStr(arg1[k].q[i].p)
              [] k = "list_cmds" ->
                    /\ Len(res) = 2 * Len(arg1[k].q)
                    /\ \A i \in DOMAIN arg1[k].q :
                          /\ res[2 * i - 1] = "--list-cmds"
                          /\ res[2 * i] = arg1[k].q[i].s
              [] k \in {"exec_path", "git_dir", "work_tree"} ->
                    res = <<ValueFlag(k), PathStr(arg1[k].p)>>
              [] OTHER -> res = <<ValueFlag(k), arg1[k].s>>

\* two -C paths rendered in input order
C11_Witness ==
    /\ fn = "build"
    /\ arg1 = One("C", SeqV(<<PathV("repo"), PathV("tmp/")>>))
    /\ res = <<"-C", "repo", "-C", "tmp">>

----------------------------------------------------------------------------
(* Subcommand arguments: host values, validation outcomes *)

TupleV(q) == [t |-> "tuple", q |-> q]
\* a Python set, written as the sequence of its elements
SetV(q) == [t |-> "set", q |-> q]

ERR_DATA_FORMAT_ERR == "ERR_DATA_FORMAT_ERR"
ERR_INVALID_USAGE == "ERR_INVALID_USAGE"

\* the validation function returned without raising
Ok == [t |-> "ok"]
\* raise GitExitingException(errmsg, exit_code=code) from cause; cause is
\* "TypeError", "ValueError" or "none" (a raise without a from clause)
RaiseFrom(code, cause) == [t |-> "raise", exit_code |-> code, cause |-> cause]

\* GitExitingException(errmsg, exit_code=code) with the cause the validators
\* pair with the code: a TypeError for ERR_DATA_FORMAT_ERR, a ValueError for
\* ERR_INVALID_USAGE
Raise(code) ==
    RaiseFrom(code, IF code = ERR_DATA_FORMAT_ERR THEN "TypeError" ELSE "ValueError")

\* the first exception raised by a sequence of checks, Ok when none raises
RECURSIVE FirstFailure(_)
FirstFailure(checks) ==
    IF checks = <<>> THEN Ok
    ELSE IF Head(checks) # Ok THEN Head(checks)
    ELSE FirstFailure(Tail(checks))

\* require_type(val, name, ty, GitExitingException): a value of another host
\* type (a bool where an int is required included) is a TypeError
require_type(val, ty) ==
    IF val.t = ty THEN Ok ELSE Raise(ERR_DATA_FORMAT_ERR)

\* require_iterable(val, name, item_ty, iter_ty, GitExitingException)
require_iterable(val, item_ty, iter_ty) ==
    IF val.t = iter_ty /\ \A i \in DOMAIN val.q : val.q[i].t = item_ty
    THEN Ok ELSE Raise(ERR_DATA_FORMAT_ERR)

----------------------------------------------------------------------------
(* git ls-tree: validation and subcommand arguments *)

AbbrevMin == 0
AbbrevMax == 40

\* bool_keys of validate_ls_tree_args, in the order they are checked
LsTreeBoolKeys ==
    << "d", "r", "t", "long", "z", "name_only", "object_only", "full_name",
       "full_tree", "name_status" >>

\* GitLsTreeOpts: the declared ls-tree option universe
LsTreeKeySet ==
    {LsTreeBoolKeys[i] : i \in DOMAIN LsTreeBoolKeys} \cup {"abbrev", "format_", "path"}

validate_ls_tree_abbrev_exclusive(opts) ==
    IF "abbrev" \in DOMAIN opts
    THEN IF require_type(opts["abbrev"], "int") # Ok
         THEN require_type(opts["abbrev"], "int")
         ELSE IF ~(AbbrevMin <= opts["abbrev"].n /\ opts["abbrev"].n < AbbrevMax)
              THEN Raise(ERR_INVALID_USAGE)
              ELSE Ok
    ELSE Ok

validate_ls_tree_abbrev(opts) ==
    IF "abbrev" \in DOMAIN opts
    THEN IF require_type(opts["abbrev"], "int") # Ok
         THEN require_type(opts["abbrev"], "int")
         ELSE IF ~(AbbrevMin <= opts["abbrev"].n /\ opts["abbrev"].n <= AbbrevMax)
              THEN Raise(ERR_INVALID_USAGE)
              ELSE Ok
    ELSE Ok

validate_ls_tree_args(tree_ish, opts) ==
    FirstFailure(
        <<require_type(tree_ish, "str")>>
        \o [i \in DOMAIN LsTreeBoolKeys |->
              IF LsTreeBoolKeys[i] \in DOMAIN opts
              THEN require_type(opts[LsTreeBoolKeys[i]], "bool") ELSE Ok]
        \o <<validate_ls_tree_abbrev(opts),
             IF "format_" \in DOMAIN opts
             THEN require_type(opts["format_"], "str") ELSE Ok,
             IF "path" \in DOMAIN opts
             THEN require_iterable(opts["path"], "str", "seq") ELSE Ok>>)

\* truthiness of a host value (if x: ...)
Truthy(v) ==
    CASE v.t = "none" -> FALSE
      [] v.t = "bool" -> v.b
      [] v.t = "int" -> v.n # 0
      [] v.t = "str" -> v.s # ""
      [] v.t \in {"seq", "tuple", "set"} -> v.q # <<>>
      [] OTHER -> TRUE

\* ['-x'] if x else []
ls_tree_flag_arg(opts, key, flag) ==
    IF Truthy(Get(opts, key)) THEN <<flag>> ELSE <<>>

\* the items of a sequence value as tokens
RECURSIVE Items(_)
Items(q) == IF q = <<>> THEN <<>> ELSE <<PyStr(Head(q))>> \o Items(Tail(q))

ls_tree_abbrev_arg(opts) ==
    IF Get(opts, "abbrev") # None
    THEN <<"--abbrev=" \o PyStr(opts["abbrev"])>> ELSE <<>>

ls_tree_format_arg(opts) ==
    IF Get(opts, "format_") # None
    THEN <<"--format=" \o PyStr(opts["format_"])>> ELSE <<>>

ls_tree_path_args(opts) ==
    IF Truthy(Get(opts, "path")) THEN Items(opts["path"].q) ELSE <<>>

ls_tree_sub_cmd_args_paths_first(tree_ish, opts) ==
    <<"ls-tree">>
    \o ls_tree_flag_arg(opts, "d", "-d")
    \o ls_tree_flag_arg(opts, "r", "-r")
    \o ls_tree_flag_arg(opts, "t", "-t")
    \o ls_tree_flag_arg(opts, "long", "-l")
    \o ls_tree_flag_arg(opts, "z", "-z")
    \o ls_tree_flag_arg(opts, "name_only", "--name-only")
    \o ls_tree_flag_arg(opts, "name_status", "--name-status")
    \o ls_tree_flag_arg(opts, "object_only", "--object-only")
    \o ls_tree_flag_arg(opts, "full_name", "--full-name")
    \o ls_tree_flag_arg(opts, "full_tree", "--full-tree")
    \o ls_tree_abbrev_arg(opts)
    \o ls_tree_format_arg(opts)
    \o ls_tree_path_args(opts)
    \o <<PyStr(tree_ish)>>

\* the argument list LsTreeCommand.build_sub_cmd_args assembles once
\* validation has passed
ls_tree_sub_cmd_args(tree_ish, opts) ==
    <<"ls-tree">>
    \o ls_tree_flag_arg(opts, "d", "-d")
    \o ls_tree_flag_arg(opts, "r", "-r")
    \o ls_tree_flag_arg(opts, "t", "-t")
    \o ls_tree_flag_arg(opts, "long", "-l")
    \o ls_tree_flag_arg(opts, "z", "-z")
    \o ls_tree_flag_arg(opts, "name_only", "--name-only")
    \o ls_tree_flag_arg(opts, "name_status", "--name-status")
    \o ls_tree_flag_arg(opts, "object_only", "--object-only")
    \o ls_tree_flag_arg(opts, "full_name", "--full-name")
    \o ls_tree_flag_arg(opts, "full_tree", "--full-tree")
    \o ls_tree_abbrev_arg(opts)
    \o ls_tree_format_arg(opts)
    \o <<PyStr(tree_ish)>>
    \o ls_tree_path_args(opts)

\* LsTree._require_valid_args: the validation function the subcommand declares
ls_tree_require_valid_args(tree_ish, opts) == validate_ls_tree_args(tree_ish, opts)

\* what a call returns to its caller: the exception raised, or the list built
Built(args) == [t |-> "built", sub_cmd_args |-> args]

\* LsTreeCommand.build_sub_cmd_args
build_sub_cmd_args(tree_ish, opts) ==
    IF ls_tree_require_valid_args(tree_ish, opts) # Ok
    THEN ls_tree_require_valid_args(tree_ish, opts)
    ELSE Built(ls_tree_sub_cmd_args(tree_ish, opts))

\* run_git_command(main_cmd_args, sub_cmd_args, _input=input, ...)
Ran(main, sub, input) ==
    [t |-> "ran", main_cmd_args |-> main, sub_cmd_args |-> sub, input |-> input]

\* if ls_tree_opts.get(key): sub_cmd_args.append(flag)
ls_tree_impl_flag(opts, key, flag) ==
    IF Truthy(Get(opts, key)) THEN <<flag>> ELSE <<>>

\* the argument list LsTreeCommandImpl.ls_tree assembles inline
ls_tree_impl_sub_cmd_args(tree_ish, opts) ==
    <<"ls-tree">>
    \o ls_tree_impl_flag(opts, "d", "-d")
    \o ls_tree_impl_flag(opts, "r", "-r")
    \o ls_tree_impl_flag(opts, "t", "-t")
    \o ls_tree_impl_flag(opts, "long", "-l")
    \o ls_tree_impl_flag(opts, "z", "-z")
    \o ls_tree_impl_flag(opts, "name_only", "--name-only")
    \o ls_tree_impl_flag(opts, "name_status", "--name-status")
    \o ls_tree_impl_flag(opts, "object_only", "--object-only")
    \o ls_tree_impl_flag(opts, "full_name", "--full-name")
    \o ls_tree_impl_flag(opts, "full_tree", "--full-tree")
    \o (IF Get(opts, "abbrev") # None
        THEN <<"--abbrev=" \o PyStr(opts["abbrev"])>> ELSE <<>>)
    \o (IF Get(opts, "format_") # None
        THEN <<"--format=" \o PyStr(opts["format_"])>> ELSE <<>>)
    \o <<PyStr(tree_ish)>>
    \o (IF Truthy(Get(opts, "path")) THEN Items(opts["path"].q) ELSE <<>>)

\* LsTreeCommandImpl.ls_tree on subcommand object s
ls_tree(s, tree_ish, opts) ==
    IF ls_tree_require_valid_args(tree_ish, opts) # Ok
    THEN ls_tree_require_valid_args(tree_ish, opts)
    ELSE Ran(subcmd_main_cmd_args(s), ls_tree_impl_sub_cmd_args(tree_ish, opts), None)

\* IndividuallyOverridableLTCAB: ['-x'] if x else []
ltcab_flag_arg(opts, key, flag) ==
    IF Truthy(Get(opts, key)) THEN <<flag>> ELSE <<>>

ltcab_abbrev_arg_truthy(opts) ==
    IF Truthy(Get(opts, "abbrev"))
    THEN <<"--abbrev=" \o PyStr(opts["abbrev"])>> ELSE <<>>

\* [f'--abbrev={abbrev}'] if abbrev is not None else []
ltcab_abbrev_arg(opts) ==
    IF Get(opts, "abbrev") # None
    THEN <<"--abbrev=" \o PyStr(opts["abbrev"])>> ELSE <<>>

\* [f'--format={_format}'] if _format is not None else []
ltcab_format_arg(opts) ==
    IF Get(opts, "format_") # None
    THEN <<"--format=" \o PyStr(opts["format_"])>> ELSE <<>>

\* [tree_ish]
ltcab_tree_ish_arg(tree_ish) == <<PyStr(tree_ish)>>

\* path if path else []
ltcab_path_args(opts) ==
    IF Truthy(Get(opts, "path")) THEN Items(opts["path"].q) ELSE <<>>

\* IndividuallyOverridableLTCAB.build: no validation of its own
IndividuallyOverridableLTCAB_build(tree_ish, opts) ==
    Built(<<"ls-tree">>
          \o ltcab_flag_arg(opts, "d", "-d")
          \o ltcab_flag_arg(opts, "r", "-r")
          \o ltcab_flag_arg(opts, "t", "-t")
          \o ltcab_flag_arg(opts, "long", "-l")
          \o ltcab_flag_arg(opts, "z", "-z")
          \o ltcab_flag_arg(opts, "name_only", "--name-only")
          \o ltcab_flag_arg(opts, "name_status", "--name-status")
          \o ltcab_flag_arg(opts, "object_only", "--object-only")
          \o ltcab_flag_arg(opts, "full_name", "--full-name")
          \o ltcab_flag_arg(opts, "full_tree", "--full-tree")
          \o ltcab_abbrev_arg(opts)
          \o ltcab_format_arg(opts)
          \o ltcab_tree_ish_arg(tree_ish)
          \o ltcab_path_args(opts))

----------------------------------------------------------------------------
(* git add: validation and the add facade *)

\* an add call: the direct pathspecs (pathspec, *pathspecs; <<>> when none is
\* given), the three pathspec-source keywords, and add_opts
AddCall(pathspecs, from_file, stdin, file_nul, opts) ==
    [pathspecs |-> pathspecs, pathspec_from_file |-> from_file,
     pathspec_stdin |-> stdin, pathspec_file_nul |-> file_nul, add_opts |-> opts]

\* has_atleast_one_arg(pathspec, *pathspecs, enforce_type=False)
has_atleast_one_arg(pathspecs) == pathspecs # <<>>

\* ensure_atleast_one_arg(pathspec, *pathspecs, enforce_type=str), its
\* TypeError turned into GitExitingException('pathspec must be a string.')
ensure_atleast_one_arg(pathspecs) ==
    IF \A i \in DOMAIN pathspecs : pathspecs[i].t = "str"
    THEN Ok ELSE Raise(ERR_DATA_FORMAT_ERR)

\* bool_keys of validate_add_args, in the order they are checked
AddBoolKeys ==
    << "verbose", "dry_run", "force", "interactive", "patch", "edit", "sparse",
       "intent_to_add", "refresh", "ignore_errors", "ignore_missing", "renormalize" >>

AddTriStateKeys == <<"no_all", "no_ignore_removal">>

\* GitAddOpts: the declared add option universe
AddKeySet ==
    {AddBoolKeys[i] : i \in DOMAIN AddBoolKeys}
    \cup {AddTriStateKeys[i] : i \in DOMAIN AddTriStateKeys} \cup {"chmod"}

\* val in (True, False, None), by Python equality: 1 == True and 0 == False
InTriState(val) ==
    \/ val.t \in {"bool", "none"}
    \/ val.t = "int" /\ val.n \in {0, 1}

\* chmod in ('+x', '-x', None)
InChmod(val) == val = StrV("+x") \/ val = StrV("-x") \/ val = None

\* region Argument exclusivity checks; the three checks after the type check
\* of the direct pathspecs are made only when a direct pathspec is given
add_exclusivity_checks_without_file_nul(c) ==
    IF has_atleast_one_arg(c.pathspecs)
    THEN FirstFailure(
           <<ensure_atleast_one_arg(c.pathspecs),
             IF c.pathspec_from_file # None THEN Raise(ERR_INVALID_USAGE) ELSE Ok,
             IF c.pathspec_stdin # None THEN Raise(ERR_INVALID_USAGE) ELSE Ok>>)
    ELSE Ok

add_exclusivity_checks(c) ==
    IF has_atleast_one_arg(c.pathspecs)
    THEN FirstFailure(
           <<ensure_atleast_one_arg(c.pathspecs),
             IF c.pathspec_from_file # None THEN Raise(ERR_INVALID_USAGE) ELSE Ok,
             IF c.pathspec_stdin # None THEN Raise(ERR_INVALID_USAGE) ELSE Ok,
             IF Truthy(c.pathspec_file_nul) THEN Raise(ERR_INVALID_USAGE) ELSE Ok>>)
    ELSE Ok

add_stdin_checks_one_way(c) ==
    FirstFailure(
      <<IF c.pathspec_from_file = StrV("-") /\ c.pathspec_stdin = None
        THEN Raise(ERR_INVALID_USAGE) ELSE Ok>>)

\* pathspec_stdin if and only if pathspec_from_file == '-'
add_stdin_checks(c) ==
    FirstFailure(
      <<IF c.pathspec_from_file = StrV("-") /\ c.pathspec_stdin = None
        THEN Raise(ERR_INVALID_USAGE) ELSE Ok,
        IF c.pathspec_from_file # StrV("-") /\ c.pathspec_stdin # None
        THEN Raise(ERR_INVALID_USAGE) ELSE Ok>>)

\* region Type checks for add_opts
add_opts_checks(opts) ==
    FirstFailure(
        [i \in DOMAIN AddBoolKeys |->
            IF AddBoolKeys[i] \in DOMAIN opts
            THEN require_type(opts[AddBoolKeys[i]], "bool") ELSE Ok]
        \o [i \in DOMAIN AddTriStateKeys |->
            IF AddTriStateKeys[i] \in DOMAIN opts /\ ~InTriState(opts[AddTriStateKeys[i]])
            THEN RaiseFrom(ERR_DATA_FORMAT_ERR, "ValueError") ELSE Ok]
        \o <<IF "chmod" \in DOMAIN opts /\ ~InChmod(opts["chmod"])
             THEN Raise(ERR_INVALID_USAGE) ELSE Ok>>)

\* region Type checks for non add-opts
add_non_opts_checks(c) ==
    FirstFailure(
      <<require_type(c.pathspec_file_nul, "bool"),
        IF c.pathspec_from_file # None
           /\ ~(c.pathspec_from_file.t = "path" \/ c.pathspec_from_file = StrV("-"))
        THEN RaiseFrom(ERR_DATA_FORMAT_ERR, "none") ELSE Ok,
        IF c.pathspec_stdin # None
        THEN require_type(c.pathspec_stdin, "str") ELSE Ok>>)

validate_add_args(c) ==
    FirstFailure(
      <<add_exclusivity_checks(c), add_stdin_checks(c), add_opts_checks(c.add_opts),
        add_non_opts_checks(c)>>)

\* UtilAddArgsValidator.validate
UtilAddArgsValidator_validate(c) == validate_add_args(c)

\* if add_opts.get(key): sub_cmd_args.append(flag)
add_flag_arg(opts, key, flag) ==
    IF Truthy(Get(opts, key)) THEN <<flag>> ELSE <<>>

add_tri_state_arg_two_state(opts, key, no_flag, flag) ==
    IF Truthy(Get(opts, key)) THEN <<no_flag>> ELSE <<flag>>

\* if val is True: [no_flag] elif val is False: [flag]
add_tri_state_arg(opts, key, no_flag, flag) ==
    IF Get(opts, key) = BoolV(TRUE) THEN <<no_flag>>
    ELSE IF Get(opts, key) = BoolV(FALSE) THEN <<flag>>
    ELSE <<>>

add_chmod_arg(opts) ==
    IF Get(opts, "chmod") # None THEN <<"--chmod=" \o PyStr(opts["chmod"])>> ELSE <<>>

\* the option part of the add argument list
add_opts_args(opts) ==
    <<"add">>
    \o add_flag_arg(opts, "verbose", "--verbose")
    \o add_flag_arg(opts, "dry_run", "--dry-run")
    \o add_flag_arg(opts, "force", "--force")
    \o add_flag_arg(opts, "interactive", "--interactive")
    \o add_flag_arg(opts, "patch", "--patch")
    \o add_flag_arg(opts, "edit", "--edit")
    \o add_flag_arg(opts, "sparse", "--sparse")
    \o add_flag_arg(opts, "intent_to_add", "--intent-to-add")
    \o add_flag_arg(opts, "refresh", "--refresh")
    \o add_flag_arg(opts, "ignore_errors", "--ignore-errors")
    \o add_flag_arg(opts, "ignore_missing", "--ignore-missing")
    \o add_flag_arg(opts, "renormalize", "--renormalize")
    \o add_tri_state_arg(opts, "no_all", "--no-all", "--all")
    \o add_tri_state_arg(opts, "no_ignore_removal", "--no-ignore-removal", "--ignore-removal")
    \o add_chmod_arg(opts)

\* the exclusive argument checks AddCommandImpl.add makes itself; for the
\* facade c.pathspecs is the host value of pathspec: None or a list
add_facade_checks(c) ==
    FirstFailure(
      <<IF c.pathspecs # None /\ c.pathspec_from_file # None
        THEN Raise(ERR_INVALID_USAGE) ELSE Ok,
        IF c.pathspecs # None /\ c.pathspec_stdin # None
        THEN Raise(ERR_INVALID_USAGE) ELSE Ok,
        IF c.pathspec_from_file = StrV("-") /\ c.pathspec_stdin = None
        THEN Raise(ERR_INVALID_USAGE) ELSE Ok,
        IF c.pathspec_from_file # StrV("-") /\ c.pathspec_stdin # None
        THEN Raise(ERR_INVALID_USAGE) ELSE Ok>>)

\* AddCommandImpl.add on subcommand object s; c.pathspecs is the host value
\* of pathspec: None or a list, which may be empty
add(s, c) ==
    IF add_facade_checks(c) # Ok THEN add_facade_checks(c)
    ELSE IF c.pathspec_from_file # None
    THEN Ran(subcmd_main_cmd_args(s),
             add_opts_args(c.add_opts)
               \o <<"--pathspec-from-file=" \o PyStr(c.pathspec_from_file)>>
               \o (IF Truthy(c.pathspec_file_nul) THEN <<"--pathspec-file-nul">> ELSE <<>>),
             IF c.pathspec_from_file = StrV("-") THEN c.pathspec_stdin ELSE None)
    ELSE IF c.pathspecs # None
    THEN Ran(subcmd_main_cmd_args(s), add_opts_args(c.add_opts) \o Items(c.pathspecs.q), None)
    ELSE Raise(ERR_INVALID_USAGE)

----------------------------------------------------------------------------
(* SpecSubcmd: one ls-tree or add call, validated, built or run *)

LsTreeIshInputs == {StrV("HEAD"), IntV(20), None, BoolV(TRUE), SeqV(<<StrV("tree")>>)}

AbbrevInputs == (-3 .. 44) \cup {100}

LsTreeFlagInputs == {BoolV(TRUE), BoolV(FALSE), None, StrV("yes"), IntV(1)}

LsTreeAbbrevInputs ==
    {IntV(n) : n \in AbbrevInputs} \cup {StrV("abc"), BoolV(TRUE), None, SeqV(<<IntV(5)>>)}

LsTreeFormatInputs ==
    {StrV("%(objectname)"), StrV(""), IntV(10), BoolV(TRUE), None, SeqV(<<StrV("format")>>)}

TwoPaths == SeqV(<<StrV("src/"), StrV("README.md")>>)

LsTreePathInputs ==
    { SeqV(<<>>), TwoPaths, SeqV(<<StrV("README.md"), StrV("src/")>>),
      StrV("src/"), IntV(123), None, SeqV(<<IntV(1), IntV(2)>>),
      SeqV(<<None, StrV("file")>>), TupleV(<<StrV("a")>>), SetV(<<StrV("a"), StrV("b")>>) }

\* the flags used in the calls that set several options at once
LsTreeComboFlags == {"d", "r", "name_only", "full_tree"}

\* well-typed calls setting several options: a set of flags to True and the
\* others to False, with or without abbrev, format_ and path
LsTreeCombos ==
    { [k \in LsTreeComboFlags \cup (IF ab = {} THEN {} ELSE {"abbrev"}) \cup fm \cup pa |->
          CASE k = "abbrev" -> IntV(CHOOSE n \in ab : TRUE)
            [] k = "format_" -> StrV("%(objectname)")
            [] k = "path" -> TwoPaths
            [] OTHER -> BoolV(k \in on)] :
        on \in SUBSET LsTreeComboFlags,
        ab \in {{}, {AbbrevMin}, {AbbrevMax}},
        fm \in {{}, {"format_"}},
        pa \in {{}, {"path"}} }

\* every option of ls-tree set
LsTreeAllSet ==
    [k \in LsTreeKeySet |->
        CASE k = "abbrev" -> IntV(10)
          [] k = "format_" -> StrV("%(objectname)")
          [] k = "path" -> TwoPaths
          [] OTHER -> BoolV(TRUE)]

LsTreeOptInputs ==
    {EmptyOpts, LsTreeAllSet}
    \cup UNION {{One(LsTreeBoolKeys[i], v) : v \in LsTreeFlagInputs} : i \in DOMAIN LsTreeBoolKeys}
    \cup {One("abbrev", v) : v \in LsTreeAbbrevInputs}
    \cup {One("format_", v) : v \in LsTreeFormatInputs}
    \cup {One("path", v) : v \in LsTreePathInputs}
    \cup LsTreeCombos
    \cup { [k \in {"abbrev", "format_"} |-> IF k = "abbrev" THEN IntV(41) ELSE IntV(10)],
           One("recursive", BoolV(TRUE)) }

AddPathspecInputs ==
    {<<>>, <<StrV("a.txt")>>, <<StrV("a.txt"), StrV("b.txt")>>, <<IntV(123)>>}

AddFromFileInputs == {None, StrV("-"), PathV("list.txt"), StrV("file.txt")}

AddStdinInputs == {None, StrV("README.md"), IntV(5)}

AddFileNulInputs == {BoolV(FALSE), BoolV(TRUE), StrV("yes")}

AddOptInputs ==
    { EmptyOpts,
      One("verbose", BoolV(TRUE)), One("verbose", StrV("true")),
      One("dry_run", BoolV(FALSE)), One("renormalize", StrV("sometimes")),
      One("no_all", BoolV(TRUE)), One("no_all", BoolV(FALSE)), One("no_all", None),
      One("no_all", StrV("yes")), One("no_ignore_removal", BoolV(FALSE)),
      One("chmod", StrV("+x")), One("chmod", StrV("-x")), One("chmod", None),
      One("chmod", StrV("bad")), One("chmod", StrV("777")),
      [k \in {"force", "chmod"} |-> IF k = "force" THEN BoolV(TRUE) ELSE StrV("+x")],
      One("all", BoolV(TRUE)),
      One("no_ignore_removal", BoolV(TRUE)), One("no_ignore_removal", None) }
    \cup {[k \in {"no_all", "no_ignore_removal"} |-> IF k = "no_all" THEN a ELSE r] :
            a \in {BoolV(TRUE), BoolV(FALSE), None}, r \in {BoolV(TRUE), BoolV(FALSE), None}}

SubcmdInputs ==
    {[kind |-> "ls_tree", tree_ish |-> ti, opts |-> o] :
        ti \in LsTreeIshInputs, o \in LsTreeOptInputs}
    \cup {[kind |-> "add", call |-> AddCall(p, ff, si, fnul, o)] :
        p \in AddPathspecInputs, ff \in AddFromFileInputs, si \in AddStdinInputs,
        fnul \in AddFileNulInputs, o \in AddOptInputs}

InitSubcmd ==
    /\ gits = <<NewGit>>
    /\ subcmds = NewSubcmds
    /\ calls = <<>>
    /\ runner = NoCall
    /\ ret = NoRef
    /\ pc = [t \in {1, 2} |-> "start"]
    /\ tref = [t \in {1, 2} |-> 0]
    /\ town = [t \in {1, 2} |-> EmptyOpts]
    /\ targs = [t \in {1, 2} |-> <<>>]
    /\ fn = "none"
    /\ arg1 \in SubcmdInputs
    /\ arg2 = EmptyOpts
    /\ res = None

\* the runner after a facade call: invoked only when the call did not raise
RunnerAfter(s, out) ==
    IF out.t = "ran" THEN [via |-> s, main_cmd_args |-> out.main_cmd_args] ELSE runner

\* validate_ls_tree_args(tree_ish, **ls_tree_opts)
LsTreeValidate ==
    /\ fn = "none" /\ arg1.kind = "ls_tree"
    /\ fn' = "validate_ls_tree_args"
    /\ res' = validate_ls_tree_args(arg1.tree_ish, arg1.opts)
    /\ UNCHANGED <<arg1, arg2>>
    /\ UNCHANGED heapVars
    /\ UNCHANGED threadVars

\* LsTreeCommand.build_sub_cmd_args(tree_ish, **ls_tree_opts)
LsTreeBuild ==
    /\ fn = "none" /\ arg1.kind = "ls_tree"
    /\ fn' = "build_sub_cmd_args"
    /\ res' = build_sub_cmd_args(arg1.tree_ish, arg1.opts)
    /\ UNCHANGED <<arg1, arg2>>
    /\ UNCHANGED heapVars
    /\ UNCHANGED threadVars

\* git.ls_tree_subcmd.ls_tree(tree_ish, **ls_tree_opts)
LsTree ==
    /\ fn = "none" /\ arg1.kind = "ls_tree"
    /\ fn' = "ls_tree"
    /\ res' = ls_tree(gits[1].ls_tree_subcmd, arg1.tree_ish, arg1.opts)
    /\ runner' = RunnerAfter(gits[1].ls_tree_subcmd, res')
    /\ UNCHANGED <<arg1, arg2>>
    /\ UNCHANGED <<gits, subcmds, calls, ret>>
    /\ UNCHANGED threadVars

\* validate_add_args(pathspec, *pathspecs, pathspec_from_file=..., ...)
AddValidate ==
    /\ fn = "none" /\ arg1.kind = "add"
    /\ fn' = "validate_add_args"
    /\ res' = UtilAddArgsValidator_validate(arg1.call)
    /\ UNCHANGED <<arg1, arg2>>
    /\ UNCHANGED heapVars
    /\ UNCHANGED threadVars

\* the values of the facade's pathspec parameter that stand for the direct
\* pathspecs q: the list of them; None or the empty list when there is none
FacadePathspecs(q) == IF q = <<>> THEN {None, SeqV(<<>>)} ELSE {SeqV(q)}

\* git.add_subcmd.add(pathspec, pathspec_from_file=..., ...); arg2 keeps the
\* value passed as pathspec
Add ==
    /\ fn = "none" /\ arg1.kind = "add"
    /\ fn' = "add"
    /\ \E p \in FacadePathspecs(arg1.call.pathspecs) :
          /\ res' = add(gits[1].add_subcmd, [arg1.call EXCEPT !.pathspecs = p])
          /\ arg2' = One("pathspec", p)
    /\ runner' = RunnerAfter(gits[1].add_subcmd, res')
    /\ UNCHANGED arg1
    /\ UNCHANGED <<gits, subcmds, calls, ret>>
    /\ UNCHANGED threadVars

NextSubcmd == LsTreeValidate \/ LsTreeBuild \/ LsTree \/ AddValidate \/ Add

SpecSubcmd == InitSubcmd /\ [][NextSubcmd]_vars

----------------------------------------------------------------------------
(* Claims about ls-tree, checked under SpecSubcmd *)

LsTreeFns == {"validate_ls_tree_args", "build_sub_cmd_args", "ls_tree"}

\* the ls-tree flags with their tokens, in the order the claims give
LsTreeClaimedFlags ==
    << <<"d", "-d">>, <<"r", "-r">>, <<"t", "-t">>, <<"long", "-l">>, <<"z", "-z">>,
       <<"name_only", "--name-only">>, <<"name_status", "--name-status">>,
       <<"object_only", "--object-only">>, <<"full_name", "--full-name">>,
       <<"full_tree", "--full-tree">> >>

IsStrList(v) == v.t = "seq" /\ \A i \in DOMAIN v.q : v.q[i].t = "str"

\* an argument of the call has another host type than the declared one
LsTreeIllTyped(tree_ish, opts) ==
    \/ tree_ish.t # "str"
    \/ \E i \in DOMAIN LsTreeClaimedFlags :
          /\ LsTreeClaimedFlags[i][1] \in DOMAIN opts
          /\ opts[LsTreeClaimedFlags[i][1]].t # "bool"
    \/ "abbrev" \in DOMAIN opts /\ opts["abbrev"].t # "int"
    \/ "format_" \in DOMAIN opts /\ opts["format_"].t # "str"
    \/ "path" \in DOMAIN opts /\ ~IsStrList(opts["path"])

\* C12: ls-tree validation accepts an integer abbrev exactly when
\* 0 <= abbrev <= 40; every integer below 0 or above 40 raises
\* GitExitingException with exit code ERR_INVALID_USAGE (the other arguments
\* of the call being well typed).
C12_AbbrevRange ==
    ( /\ fn \in LsTreeFns
      /\ "abbrev" \in DOMAIN arg1.opts
      /\ ~LsTreeIllTyped(arg1.tree_ish, arg1.opts) ) =>
        IF 0 <= arg1.opts["abbrev"].n /\ arg1.opts["abbrev"].n <= 40
        THEN res.t # "raise"
        ELSE res = Raise(ERR_INVALID_USAGE)

\* abbrev = 41 is refused by the facade, one above the accepted 40
C12_Witness ==
    /\ fn = "ls_tree"
    /\ arg1.tree_ish = StrV("HEAD")
    /\ arg1.opts = One("abbrev", IntV(41))
    /\ res = Raise(ERR_INVALID_USAGE)

\* C13: ls_tree raises GitExitingException with exit code ERR_DATA_FORMAT_ERR
\* whenever tree_ish is not a str, a supplied boolean flag is not a bool, a
\* supplied abbrev is not an int, a supplied format_ is not a str, or a
\* supplied path is not a list whose elements are all str.
C13_IllTypedRaises ==
    (fn = "ls_tree" /\ LsTreeIllTyped(arg1.tree_ish, arg1.opts)) =>
        res = Raise(ERR_DATA_FORMAT_ERR)

\* the tokens of the flags that are True, in the claimed order
RECURSIVE ClaimedFlagTokens(_, _)
ClaimedFlagTokens(flags, opts) ==
    IF flags = <<>> THEN <<>>
    ELSE (IF Get(opts, Head(flags)[1]) = BoolV(TRUE) THEN <<Head(flags)[2]>> ELSE <<>>)
         \o ClaimedFlagTokens(Tail(flags), opts)

\* the argument vector the claim gives for a valid call
LsTreeClaimedArgs(tree_ish, opts) ==
    <<"ls-tree">>
    \o ClaimedFlagTokens(LsTreeClaimedFlags, opts)
    \o (IF "abbrev" \in DOMAIN opts
        THEN <<"--abbrev=" \o ToString(opts["abbrev"].n)>> ELSE <<>>)
    \o (IF "format_" \in DOMAIN opts THEN <<"--format=" \o opts["format_"].s>> ELSE <<>>)
    \o <<tree_ish.s>>
    \o (IF "path" \in DOMAIN opts
        THEN [i \in DOMAIN opts["path"].q |-> opts["path"].q[i].s] ELSE <<>>)

\* a call with declared options only, well typed, abbrev within 0..40
LsTreeValidCall(tree_ish, opts) ==
    /\ DOMAIN opts \subseteq LsTreeKeySet
    /\ ~LsTreeIllTyped(tree_ish, opts)
    /\ "abbrev" \in DOMAIN opts => (0 <= opts["abbrev"].n /\ opts["abbrev"].n <= 40)

\* C14: for every valid ls-tree call the subcommand argument vector is
\* 'ls-tree', the flags of the options that are True in the order -d, -r, -t,
\* -l, -z, --name-only, --name-status, --object-only, --full-name,
\* --full-tree, then '--abbrev=N', then '--format=<fmt>', then tree_ish, then
\* the path entries in caller-supplied order.
C14_LsTreeArgs ==
    ( /\ fn \in {"build_sub_cmd_args", "ls_tree"}
      /\ LsTreeValidCall(arg1.tree_ish, arg1.opts) ) =>
        /\ res.t = (IF fn = "ls_tree" THEN "ran" ELSE "built")
        /\ res.sub_cmd_args = LsTreeClaimedArgs(arg1.tree_ish, arg1.opts)

\* every option set: all ten flags, abbrev, format, tree_ish, two paths
C14_Witness ==
    /\ fn = "ls_tree"
    /\ arg1.tree_ish = StrV("HEAD")
    /\ arg1.opts = LsTreeAllSet
    /\ res.t = "ran"
    /\ res.sub_cmd_args =
          << "ls-tree", "-d", "-r", "-t", "-l", "-z", "--name-only", "--name-status",
             "--object-only", "--full-name", "--full-tree", "--abbrev=10",
             "--format=%(objectname)", "HEAD", "src/", "README.md" >>

----------------------------------------------------------------------------
(* Claims about add, checked under SpecSubcmd *)

\* at least one direct pathspec is supplied, each of them a string
DirectPathspecs(c) ==
    c.pathspecs # <<>> /\ \A i \in DOMAIN c.pathspecs : c.pathspecs[i].t = "str"

C16_StdinIffDash ==
    ( /\ fn \in {"validate_add_args", "add"}
      /\ fn = "validate_add_args" =>
            \A i \in DOMAIN arg1.call.pathspecs : arg1.call.pathspecs[i].t = "str" ) =>
        LET c == arg1.call IN
        /\ (c.pathspec_from_file = StrV("-") /\ c.pathspec_stdin = None) =>
              res = Raise(ERR_INVALID_USAGE)
        /\ (c.pathspec_stdin # None /\ c.pathspec_from_file # StrV("-")) =>
              res = Raise(ERR_INVALID_USAGE)
        /\ res.t \in {"ok", "ran"} =>
              (c.pathspec_stdin # None <=> c.pathspec_from_file = StrV("-"))
        /\ res.t = "ran" =>
              res.input = (IF c.pathspec_from_file = StrV("-")
                           THEN c.pathspec_stdin ELSE None)

\* add(pathspec_from_file='-', pathspec_stdin='README.md') reaches the runner
\* with the stdin content as input
C16_Witness ==
    /\ fn = "add"
    /\ arg1.call = AddCall(<<>>, StrV("-"), StrV("README.md"), BoolV(FALSE), EmptyOpts)
    /\ res.t = "ran"
    /\ res.input = StrV("README.md")
    /\ res.sub_cmd_args = <<"add", "--pathspec-from-file=-">>

\* C17: validation of add arguments fails with a GitExitingException when
\* neither a direct pathspec nor pathspec_from_file is supplied.
C17_PathspecRequired ==
    ( /\ fn \in {"validate_add_args", "add"}
      /\ arg1.call.pathspecs = <<>>
      /\ arg1.call.pathspec_from_file = None ) =>
        res.t = "raise"

\* C18: the add and ls_tree facades run their subcommand's argument
\* validation before formatting: a call either raises a validation error
\* before the runner is invoked, or invokes the runner with arguments that
\* validate_add_args / validate_ls_tree_args accepts; the runner is never
\* invoked with an ill-typed option or an out-of-enum chmod value.
C18_ValidatedBeforeRun ==
    /\ (fn = "ls_tree" /\ res.t = "ran") =>
          /\ validate_ls_tree_args(arg1.tree_ish, arg1.opts) = Ok
          /\ ~LsTreeIllTyped(arg1.tree_ish, arg1.opts)
    /\ (fn = "add" /\ res.t = "ran") =>
          /\ validate_add_args(arg1.call) = Ok
          /\ "chmod" \in DOMAIN arg1.call.add_opts =>
                arg1.call.add_opts["chmod"] \in {StrV("+x"), StrV("-x"), None}
    /\ (fn \in {"ls_tree", "add"} /\ res.t # "ran") => runner = NoCall

\* C19: a key outside the declared option universe supplied to an option set
\* (here: subcommand options passed to ls_tree or add and to their
\* validation) is a validation error; it is never silently ignored.
C19_UndeclaredKeyRejected ==
    /\ (fn \in LsTreeFns /\ ~(DOMAIN arg1.opts \subseteq LsTreeKeySet)) =>
          res.t = "raise"
    /\ (fn \in {"validate_add_args", "add"}
          /\ ~(DOMAIN arg1.call.add_opts \subseteq AddKeySet)) =>
          res.t = "raise"

----------------------------------------------------------------------------
(* SpecEnvs: a git object owning a main option set and an environment set *)

MaxEnvCalls == 2     \* override calls in one behaviour of SpecEnvs

\* environment variables of the declared universe used here
EnvKeySet == {"GIT_TRACE", "GIT_DIR", "GIT_EDITOR", "GIT_ADVICE"}

\* merge of two environment sets, per declared key: the override's value when
\* it is a value or UNSET, the base's value when the override has none
merge_git_envs(primary, fallback) ==
    [k \in EnvKeySet |->
        IF Get(primary, k) = None THEN Get(fallback, k) ELSE Get(primary, k)]

\* a new git object: empty main options, empty environment set
NewEnvGit ==
    [opts |-> EmptyOpts, envs |-> EmptyOpts,
     version_subcmd |-> 1, ls_tree_subcmd |-> 2, add_subcmd |-> 3]

\* git_opts_override on an object that also owns an environment set: a new
\* object with the merged main options, everything else as in the receiver
env_git_opts_override(g, overrides) ==
    /\ gits' = Append(gits, [gits[g] EXCEPT !.opts = merge_git_opts(overrides, gits[g].opts)])
    /\ ret' = [kind |-> "git", id |-> Len(gits) + 1]

git_envs_override_dropping_opts(g, overrides) ==
    /\ gits' = Append(gits, [gits[g] EXCEPT !.opts = EmptyOpts,
                                            !.envs = merge_git_envs(overrides, gits[g].envs)])
    /\ ret' = [kind |-> "git", id |-> Len(gits) + 1]

\* git_envs_override: a new object with the merged environment set,
\* everything else as in the receiver
git_envs_override(g, overrides) ==
    /\ gits' = Append(gits, [gits[g] EXCEPT !.envs = merge_git_envs(overrides, gits[g].envs)])
    /\ ret' = [kind |-> "git", id |-> Len(gits) + 1]

EnvInputs ==
    { EmptyOpts,
      One("GIT_TRACE", BoolV(TRUE)),
      One("GIT_DIR", PathV("tmp")),
      One("GIT_DIR", UNSET),
      One("GIT_DIR", None),
      [k \in {"GIT_TRACE", "GIT_EDITOR"} |-> IF k = "GIT_TRACE" THEN IntV(1) ELSE StrV("vim")],
      [k \in {"GIT_DIR", "GIT_TRACE", "GIT_ADVICE"} |->
          CASE k = "GIT_DIR" -> PathV("tmp/")
            [] k = "GIT_TRACE" -> IntV(2)
            [] OTHER -> IntV(0)] }

InitEnvs ==
    /\ gits = <<NewEnvGit>>
    /\ subcmds = NewSubcmds
    /\ calls = <<>>
    /\ runner = NoCall
    /\ ret = NoRef
    /\ pc = [t \in {1, 2} |-> "start"]
    /\ tref = [t \in {1, 2} |-> 0]
    /\ town = [t \in {1, 2} |-> EmptyOpts]
    /\ targs = [t \in {1, 2} |-> <<>>]
    /\ fn = "none"
    /\ arg1 = EmptyOpts
    /\ arg2 = EmptyOpts
    /\ res = None

\* g.git_opts_override(**overrides)
EnvGitOptsOverride ==
    \E g \in DOMAIN gits, ov \in SmallInputs :
        /\ Len(calls) < MaxEnvCalls
        /\ env_git_opts_override(g, ov)
        /\ calls' = Append(calls, [via |-> "opts", base |-> g, overrides |-> ov,
                                   result |-> ret'.id])
        /\ UNCHANGED <<subcmds, runner>>
        /\ UNCHANGED threadVars
        /\ UNCHANGED pureVars

\* g.git_envs_override(**overrides)
GitEnvsOverride ==
    \E g \in DOMAIN gits, ov \in EnvInputs :
        /\ Len(calls) < MaxEnvCalls
        /\ git_envs_override(g, ov)
        /\ calls' = Append(calls, [via |-> "envs", base |-> g, overrides |-> ov,
                                   result |-> ret'.id])
        /\ UNCHANGED <<subcmds, runner>>
        /\ UNCHANGED threadVars
        /\ UNCHANGED pureVars

NextEnvs == EnvGitOptsOverride \/ GitEnvsOverride

SpecEnvs == InitEnvs /\ [][NextEnvs]_vars

\* C20: main options and environment variables are independent universes:
\* under any interleaving of git_opts_override and git_envs_override calls,
\* git_opts_override leaves the environment set of the receiver and of the
\* returned object equal to the receiver's, and git_envs_override leaves the
\* main option set of the receiver and of the returned object equal to the
\* receiver's.
C20_OptsEnvsIndependent ==
    [][ Len(calls') > Len(calls) =>
          LET c == calls'[Len(calls')] IN
          /\ c.via = "opts" =>
                /\ gits'[c.base].envs = gits[c.base].envs
                /\ gits'[c.result].envs = gits[c.base].envs
          /\ c.via = "envs" =>
                /\ gits'[c.base].opts = gits[c.base].opts
                /\ gits'[c.result].opts = gits[c.base].opts ]_vars

\* no_advice set, then GIT_TRACE set on the result: the last object has
\* both, the objects before it have no environment variable
C20_Witness ==
    /\ Len(calls) = 2
    /\ calls[1] = [via |-> "opts", base |-> 1, overrides |-> One("no_advice", BoolV(TRUE)),
                   result |-> 2]
    /\ calls[2] = [via |-> "envs", base |-> 2, overrides |-> One("GIT_TRACE", BoolV(TRUE)),
                   result |-> 3]
    /\ gits[1].envs = EmptyOpts /\ gits[2].envs = EmptyOpts
    /\ gits[3].envs["GIT_TRACE"] = BoolV(TRUE)
    /\ gits[3].opts = gits[2].opts
    /\ gits[3].opts["no_advice"] = BoolV(TRUE)

----------------------------------------------------------------------------
(* The environment formatter *)

build_git_envs_keeping_unset(envs) ==
    [k \in {j \in EnvKeySet : Get(envs, j) # None} |-> PyStr(envs[k])]

\* build_git_envs: the variables that hold a value, each as str(value)
build_git_envs(envs) ==
    [k \in {j \in EnvKeySet : not_none_not_unset(Get(envs, j))} |-> PyStr(envs[k])]

\* the overrides of the git_envs_override calls that led from the root object
\* to g, oldest first
RECURSIVE EnvChain(_)
EnvChain(g) ==
    IF g = 1 THEN <<>>
    ELSE IF calls[g - 1].via = "envs"
         THEN Append(EnvChain(calls[g - 1].base), calls[g - 1].overrides)
         ELSE EnvChain(calls[g - 1].base)

\* C21: after any chain of git_envs_override calls, build_git_envs returns a
\* mapping that holds exactly the variables whose effective value is neither
\* absent nor UNSET, each mapped to str(value); a variable overridden with
\* UNSET is omitted even when an earlier call set it, and the other variables
\* are retained.
C21_EnvsBuilt ==
    \A g \in DOMAIN gits :
        LET m == build_git_envs(gits[g].envs)
            eff(k) == LastSupplied(EnvChain(g), k)
        IN /\ DOMAIN m = {k \in EnvKeySet : eff(k) # None /\ eff(k) # UNSET}
           /\ \A k \in DOMAIN m : m[k] = PyStr(eff(k))

\* GIT_DIR, GIT_TRACE and GIT_ADVICE set, then GIT_DIR overridden with UNSET
C21_Witness ==
    /\ Len(calls) = 2
    /\ calls[1].via = "envs" /\ calls[2].via = "envs" /\ calls[2].base = 2
    /\ Get(calls[1].overrides, "GIT_DIR") = PathV("tmp/")
    /\ Get(calls[1].overrides, "GIT_TRACE") = IntV(2)
    /\ calls[2].overrides = One("GIT_DIR", UNSET)
    /\ build_git_envs(gits[2].envs)
          = [k \in {"GIT_DIR", "GIT_TRACE", "GIT_ADVICE"} |->
                CASE k = "GIT_DIR" -> "tmp" [] k = "GIT_TRACE" -> "2" [] OTHER -> "0"]
    /\ build_git_envs(gits[3].envs)
          = [k \in {"GIT_TRACE", "GIT_ADVICE"} |-> IF k = "GIT_TRACE" THEN "2" ELSE "0"]

----------------------------------------------------------------------------
(* git branch: list_branches, checked under SpecBranch *)

\* a list_branches option is supplied when it is given and not None
Supplied1(opts, k) == Get(opts, k) # None

\* the declared host types of verbose (1, 2 or a bool) and column (a str or a bool)
list_branches_type_checks(opts) ==
    FirstFailure(
        <<IF Supplied1(opts, "verbose")
             /\ ~(opts["verbose"].t = "bool" \/ opts["verbose"] \in {IntV(1), IntV(2)})
          THEN Raise(ERR_DATA_FORMAT_ERR) ELSE Ok,
          IF Supplied1(opts, "column") /\ opts["column"].t \notin {"bool", "str"}
          THEN Raise(ERR_DATA_FORMAT_ERR) ELSE Ok>>)

validate_list_branches_args_types_only(opts) ==
    list_branches_type_checks(opts)

\* BranchArgsValidator.validate_list_branches_args: type checks, then the
\* mutual exclusion of verbose and column
validate_list_branches_args(opts) ==
    FirstFailure(
        <<list_branches_type_checks(opts),
          IF Supplied1(opts, "verbose") /\ Supplied1(opts, "column")
          THEN Raise(ERR_INVALID_USAGE) ELSE Ok>>)

\* verbose: 1 -> -v, 2 -> -vv, True -> --verbose, False -> --no-verbose
list_branches_verbose_arg(opts) ==
    LET v == Get(opts, "verbose") IN
    CASE v = IntV(1) -> <<"-v">>
      [] v = IntV(2) -> <<"-vv">>
      [] v = BoolV(TRUE) -> <<"--verbose">>
      [] v = BoolV(FALSE) -> <<"--no-verbose">>
      [] OTHER -> <<>>

\* column: a str -> --column=<layout>, True -> --column, False -> --no-column
list_branches_column_arg(opts) ==
    LET v == Get(opts, "column") IN
    CASE v.t = "str" -> <<"--column=" \o v.s>>
      [] v = BoolV(TRUE) -> <<"--column">>
      [] v = BoolV(FALSE) -> <<"--no-column">>
      [] OTHER -> <<>>

\* Branch.list_branches on subcommand object s: validation, then the runner
list_branches(s, patterns, opts) ==
    IF validate_list_branches_args(opts) # Ok
    THEN validate_list_branches_args(opts)
    ELSE Ran(subcmd_main_cmd_args(s),
             <<"branch">> \o list_branches_verbose_arg(opts)
                \o list_branches_column_arg(opts) \o patterns,
             None)

\* the branch subcommand object of the one git object of SpecBranch
BranchSubcmd == 1

BranchVerboseInputs == {None, BoolV(TRUE), BoolV(FALSE), IntV(1), IntV(2), IntV(3), StrV("2")}
BranchColumnInputs == {None, BoolV(TRUE), BoolV(FALSE), StrV("always"), StrV("column,dense"),
                       IntV(1)}
BranchPatternInputs == {<<>>, <<"feature/*">>, <<"main", "rel-*">>}

\* the options of one call: each of verbose and column absent or given
BranchOptInputs ==
    {EmptyOpts}
    \cup {One("verbose", v) : v \in BranchVerboseInputs}
    \cup {One("column", c) : c \in BranchColumnInputs}
    \cup {[k \in {"verbose", "column"} |-> IF k = "verbose" THEN v ELSE c] :
            v \in BranchVerboseInputs, c \in BranchColumnInputs}

InitBranch ==
    /\ gits = <<NewGit>>
    /\ subcmds = NewSubcmds
    /\ calls = <<>>
    /\ runner = NoCall
    /\ ret = NoRef
    /\ pc = [t \in {1, 2} |-> "start"]
    /\ tref = [t \in {1, 2} |-> 0]
    /\ town = [t \in {1, 2} |-> EmptyOpts]
    /\ targs = [t \in {1, 2} |-> <<>>]
    /\ fn = "none"
    /\ arg1 \in {[patterns |-> p, opts |-> o] : p \in BranchPatternInputs, o \in BranchOptInputs}
    /\ arg2 = EmptyOpts
    /\ res = None

\* validator.validate_list_branches_args(*patterns, **opts)
BranchValidate ==
    /\ fn = "none"
    /\ fn' = "validate_list_branches_args"
    /\ res' = validate_list_branches_args(arg1.opts)
    /\ UNCHANGED <<arg1, arg2>>
    /\ UNCHANGED heapVars
    /\ UNCHANGED threadVars

\* git.branch_subcmd.list_branches(*patterns, **opts)
ListBranches ==
    /\ fn = "none"
    /\ fn' = "list_branches"
    /\ res' = list_branches(BranchSubcmd, arg1.patterns, arg1.opts)
    /\ runner' = RunnerAfter(BranchSubcmd, res')
    /\ UNCHANGED <<arg1, arg2>>
    /\ UNCHANGED <<gits, subcmds, calls, ret>>
    /\ UNCHANGED threadVars

NextBranch == BranchValidate \/ ListBranches

SpecBranch == InitBranch /\ [][NextBranch]_vars

\* C22: list_branches called with both verbose and column supplied (both not
\* None) raises a validation error; a call is accepted only when at most one
\* of the two is supplied.
C22_VerboseColumnExclusive ==
    fn \in {"validate_list_branches_args", "list_branches"} =>
        LET both == Get(arg1.opts, "verbose") # None /\ Get(arg1.opts, "column") # None
        IN /\ both => (res.t = "raise" /\ runner = NoCall)
           /\ res.t \in {"ok", "ran"} => ~both

\* list_branches(verbose=2, column=True) raised; the runner was not invoked
C22_Witness ==
    /\ fn = "list_branches"
    /\ Get(arg1.opts, "verbose") = IntV(2)
    /\ Get(arg1.opts, "column") = BoolV(TRUE)
    /\ res = Raise(ERR_INVALID_USAGE)
    /\ runner = NoCall

----------------------------------------------------------------------------
(* Further claims about add, checked under SpecSubcmd *)

\* the number of positions of the sequence a that hold the token tok
Occurrences(a, tok) == Cardinality({i \in DOMAIN a : a[i] = tok})

\* the tokens of one tri-state option in the argument vector a are as claimed
TriStateAsClaimed(a, v, no_flag, flag) ==
    /\ v = BoolV(TRUE) => (Occurrences(a, no_flag) = 1 /\ Occurrences(a, flag) = 0)
    /\ v = BoolV(FALSE) => (Occurrences(a, flag) = 1 /\ Occurrences(a, no_flag) = 0)
    /\ v = None => (Occurrences(a, flag) = 0 /\ Occurrences(a, no_flag) = 0)
    /\ Occurrences(a, flag) + Occurrences(a, no_flag) <= 1

\* C23: the add options no_all and no_ignore_removal are tri-state and
\* independent of each other: True emits '--no-all' (resp.
\* '--no-ignore-removal'), False emits '--all' (resp. '--ignore-removal'), and
\* None or absence emits neither flag, so at most one token of each pair ever
\* appears in an add argument vector.
C23_AddTriState ==
    (fn = "add" /\ res.t = "ran") =>
        /\ TriStateAsClaimed(res.sub_cmd_args, Get(arg1.call.add_opts, "no_all"),
                             "--no-all", "--all")
        /\ TriStateAsClaimed(res.sub_cmd_args, Get(arg1.call.add_opts, "no_ignore_removal"),
                             "--no-ignore-removal", "--ignore-removal")

\* add(['a.txt'], no_all=True, no_ignore_removal=False) was run
C23_Witness ==
    /\ fn = "add" /\ res.t = "ran"
    /\ Get(arg1.call.add_opts, "no_all") = BoolV(TRUE)
    /\ Get(arg1.call.add_opts, "no_ignore_removal") = BoolV(FALSE)
    /\ res.sub_cmd_args = <<"add", "--no-all", "--ignore-removal", "a.txt">>

----------------------------------------------------------------------------
(* Claims about the order and the kind of validation errors, under SpecSubcmd *)

\* an option of the add call has another host type than the declared one
AddOptIllTyped(opts) ==
    \/ \E i \in DOMAIN AddBoolKeys :
          AddBoolKeys[i] \in DOMAIN opts /\ opts[AddBoolKeys[i]].t # "bool"
    \/ \E i \in DOMAIN AddTriStateKeys :
          AddTriStateKeys[i] \in DOMAIN opts
             /\ opts[AddTriStateKeys[i]].t \notin {"bool", "none"}

\* a direct pathspec is given together with pathspec_from_file, pathspec_stdin
\* or a true pathspec_file_nul
AddExclusivityViolated(c) ==
    /\ c.pathspecs # <<>>
    /\ \/ c.pathspec_from_file # None
       \/ c.pathspec_stdin # None
       \/ c.pathspec_file_nul = BoolV(TRUE)

\* abbrev is an int outside 0..40
LsTreeAbbrevOutOfRange(opts) ==
    /\ "abbrev" \in DOMAIN opts
    /\ opts["abbrev"].t = "int"
    /\ ~(0 <= opts["abbrev"].n /\ opts["abbrev"].n <= 40)

\* C24: when one call violates several validation rules at once, the error
\* raised is that of the highest-priority violated rule in the order type
\* checks, exclusivity checks, completeness checks, range/enum checks: an
\* ill-typed option supplied together with an exclusivity violation (add) or
\* with an out-of-range abbrev (ls_tree) raises the data-format error, not
\* the invalid-usage error.
C24_TypeErrorsFirst ==
    /\ ( /\ fn = "validate_add_args"
         /\ AddOptIllTyped(arg1.call.add_opts)
         /\ AddExclusivityViolated(arg1.call) ) =>
            (res.t = "raise" /\ res.exit_code = ERR_DATA_FORMAT_ERR)
    /\ ( /\ fn \in LsTreeFns
         /\ LsTreeIllTyped(arg1.tree_ish, arg1.opts)
         /\ LsTreeAbbrevOutOfRange(arg1.opts) ) =>
            (res.t = "raise" /\ res.exit_code = ERR_DATA_FORMAT_ERR)

ValidatorFns == {"validate_ls_tree_args", "validate_add_args"}

\* C25: every failure of validate_ls_tree_args and validate_add_args that is
\* a type mismatch (TypeError cause) carries exit code ERR_DATA_FORMAT_ERR,
\* and every failure that is an invalid value or combination (ValueError
\* cause: exclusivity, completeness, range, enum membership) carries exit
\* code ERR_INVALID_USAGE; the two codes are distinct and exactly one error
\* is raised per call, for the first violation found.
C25_CodeFollowsCause ==
    /\ ERR_DATA_FORMAT_ERR # ERR_INVALID_USAGE
    /\ (fn \in ValidatorFns /\ res.t = "raise") =>
          /\ res.cause = "TypeError" => res.exit_code = ERR_DATA_FORMAT_ERR
          /\ res.cause = "ValueError" => res.exit_code = ERR_INVALID_USAGE

----------------------------------------------------------------------------
(* Claims about the stored option set and about clone *)

\* the keys given in some call of the chain ch
KeysSupplied(ch) == UNION {DOMAIN ch[i] : i \in DOMAIN ch}

\* C26: after a chain of git_opts_override calls starting from a freshly
\* constructed git object, the stored main option set of the resulting object
\* is exactly the mapping from the keys supplied in the chain to their
\* values, with no other key present; a freshly constructed object's stored
\* set is empty.  (A key supplied only as None may or may not be stored.)
C26_StoredExactlySupplied ==
    /\ gits[1].opts = EmptyOpts
    /\ \A g \in DOMAIN gits :
          LET stored == gits[g].opts
              ch == Chain(g)
          IN /\ DOMAIN stored \subseteq KeysSupplied(ch)
             /\ \A k \in KeysSupplied(ch) :
                   LastSupplied(ch, k) # None =>
                       (k \in DOMAIN stored /\ stored[k] = LastSupplied(ch, k))
             /\ \A k \in DOMAIN stored : stored[k] = LastSupplied(ch, k)

\* the second tokens the entries of the -c map m may be rendered as
CTokens(m) == {CToken(m[i]) : i \in {j \in DOMAIN m : m[j][2] # UNSET}}

\* C27: merging the -c config map is whole-map replacement: when the
\* overriding call supplies a map for c, the effective map is exactly that
\* map and no entry of the base map survives (no per-key union);
\* consequently an UNSET value under a key in the overriding map renders
\* nothing for that key and does not bring back the base map's entry for it.
C27_MapReplaced ==
    (fn = "merge" /\ Get(arg1, "c").t = "map" /\ Get(arg2, "c").t = "map") =>
        LET out == main_cmd_small_c_args(res)
            es == NonUnset(arg1["c"].m)
        IN /\ res["c"] = arg1["c"]
           /\ Len(out) = 2 * Len(es)
           /\ \A i \in DOMAIN es : out[2 * i - 1] = "-c" /\ out[2 * i] = CToken(es[i])
           /\ \A i \in DOMAIN out :
                 out[i] \in CTokens(arg2["c"].m) => out[i] \in CTokens(arg1["c"].m)

\* the base map sets foo.bar and a.b, the overriding map holds foo.bar UNSET:
\* nothing is rendered
C27_Witness ==
    /\ fn = "merge"
    /\ arg1 = One("c", MapV(<< <<"foo.bar", UNSET>> >>))
    /\ arg2 = One("c", MapV(<< <<"foo.bar", StrV("x")>>, <<"a.b", IntV(10)>> >>))
    /\ res["c"] = MapV(<< <<"foo.bar", UNSET>> >>)
    /\ main_cmd_small_c_args(res) = <<>>

----------------------------------------------------------------------------
(* SpecClone: override and clone calls on the object heap *)

MaxCloneCalls == 3   \* override and clone calls in one behaviour of SpecClone

\* g.git_opts_override(**overrides)
CloneOverride ==
    \E g \in DOMAIN gits, ov \in SmallInputs :
        /\ Len(calls) < MaxCloneCalls
        /\ git_opts_override(g, ov)
        /\ calls' = Append(calls, [via |-> "git", base |-> g, overrides |-> ov,
                                   result |-> ret'.id])
        /\ UNCHANGED <<subcmds, runner>>
        /\ UNCHANGED threadVars
        /\ UNCHANGED pureVars

\* g.clone()
GitClone ==
    \E g \in DOMAIN gits :
        /\ Len(calls) < MaxCloneCalls
        /\ gits' = Append(gits, clone(g))
        /\ ret' = [kind |-> "git", id |-> Len(gits) + 1]
        /\ calls' = Append(calls, [via |-> "clone", base |-> g, overrides |-> EmptyOpts,
                                   result |-> Len(gits) + 1])
        /\ UNCHANGED <<subcmds, runner>>
        /\ UNCHANGED threadVars
        /\ UNCHANGED pureVars

NextClone == CloneOverride \/ GitClone

SpecClone == Init /\ [][NextClone]_vars

\* C28: clone() of a git object preserves its effective state: for any git
\* object g reached by any chain of override calls, g.clone()
\* .build_main_cmd_args() equals g.build_main_cmd_args(), and the subcommands
\* of the clone refer to the clone (or to an object with the same effective
\* options).
C28_ClonePreserves ==
    \A i \in DOMAIN calls :
        calls[i].via = "clone" =>
            LET g == calls[i].base
                c == calls[i].result
            IN /\ build_main_cmd_args(gits[c].opts) = build_main_cmd_args(gits[g].opts)
               /\ \A s \in SubcmdsOf(c) :
                     build_main_cmd_args(gits[subcmds[s].underlying_git].opts)
                        = build_main_cmd_args(gits[c].opts)

----------------------------------------------------------------------------
(* SpecBuilders: the three ls-tree argument builders on accepted calls *)

\* the ls-tree calls validate_ls_tree_args accepts
BuilderInputs ==
    {c \in {[kind |-> "ls_tree", tree_ish |-> ti, opts |-> o] :
               ti \in LsTreeIshInputs \cup {StrV("")}, o \in LsTreeOptInputs} :
        validate_ls_tree_args(c.tree_ish, c.opts) = Ok}

InitBuilders ==
    /\ gits = <<NewGit>>
    /\ subcmds = NewSubcmds
    /\ calls = <<>>
    /\ runner = NoCall
    /\ ret = NoRef
    /\ pc = [t \in {1, 2} |-> "start"]
    /\ tref = [t \in {1, 2} |-> 0]
    /\ town = [t \in {1, 2} |-> EmptyOpts]
    /\ targs = [t \in {1, 2} |-> <<>>]
    /\ fn = "none"
    /\ arg1 \in BuilderInputs
    /\ arg2 = EmptyOpts
    /\ res = None

\* IndividuallyOverridableLTCAB().build(tree_ish, **ls_tree_opts)
LtcabBuild ==
    /\ fn = "none"
    /\ fn' = "IndividuallyOverridableLTCAB.build"
    /\ res' = IndividuallyOverridableLTCAB_build(arg1.tree_ish, arg1.opts)
    /\ UNCHANGED <<arg1, arg2>>
    /\ UNCHANGED heapVars
    /\ UNCHANGED threadVars

NextBuilders == LsTreeBuild \/ LtcabBuild \/ LsTree

SpecBuilders == InitBuilders /\ [][NextBuilders]_vars

\* C29: the three ls-tree argument builders are equivalent: for every
\* tree_ish and every option set accepted by validate_ls_tree_args,
\* LsTreeCommand.build_sub_cmd_args, IndividuallyOverridableLTCAB.build and
\* the argument vector that LsTreeCommandImpl.ls_tree hands to the runner are
\* the same token sequence.
C29_BuildersAgree ==
    fn # "none" =>
        /\ res.t \in {"built", "ran"}
        /\ res.sub_cmd_args = build_sub_cmd_args(arg1.tree_ish, arg1.opts).sub_cmd_args
        /\ res.sub_cmd_args
              = IndividuallyOverridableLTCAB_build(arg1.tree_ish, arg1.opts).sub_cmd_args
        /\ res.sub_cmd_args
              = ls_tree(gits[1].ls_tree_subcmd, arg1.tree_ish, arg1.opts).sub_cmd_args

\* the facade ran a call with abbrev=0, a flag, a format and two paths
C29_Witness ==
    /\ fn = "ls_tree"
    /\ Get(arg1.opts, "abbrev") = IntV(0)
    /\ res.t = "ran"
    /\ res.sub_cmd_args = <<"ls-tree", "-d", "--abbrev=0", "--format=%(objectname)", "HEAD",
                            "src/", "README.md">>

\* the tokens a direct pathspec of the inputs is rendered as
DirectTokens == UNION {{PyStr(q[i]) : i \in DOMAIN q} : q \in AddPathspecInputs}

\* the tokens --pathspec-from-file=<value> of the inputs
FromFileTokens ==
    {"--pathspec-from-file=" \o PyStr(v) : v \in AddFromFileInputs \ {None}}

\* the positions of the sequence a holding a token of the set toks
Positions(a, toks) == {i \in DOMAIN a : a[i] \in toks}

\* C30: every runner invocation made by AddCommandImpl.add has an argument
\* vector that starts with 'add' and carries either exactly one
\* '--pathspec-from-file=<value>' token (followed by '--pathspec-file-nul'
\* only when pathspec_file_null is true) or at least one direct pathspec
\* token, never both and never neither; a call that would carry neither
\* raises ERR_INVALID_USAGE without invoking the runner.
C30_AddVectorShape ==
    fn = "add" =>
        /\ res.t = "ran" =>
              LET a == res.sub_cmd_args
                  ff == Positions(a, FromFileTokens)
                  dp == Positions(a, DirectTokens)
                  nul == Positions(a, {"--pathspec-file-nul"})
              IN /\ a[1] = "add"
                 /\ runner.main_cmd_args = res.main_cmd_args
                 /\ \/ /\ Cardinality(ff) = 1 /\ dp = {}
                       /\ nul # {} =>
                             /\ Truthy(arg1.call.pathspec_file_nul)
                             /\ \E i \in ff : nul = {i + 1}
                    \/ ff = {} /\ dp # {} /\ nul = {}
        /\ (arg1.call.pathspecs = <<>> /\ arg1.call.pathspec_from_file = None) =>
              (res = Raise(ERR_INVALID_USAGE) /\ runner = NoCall)

====
